---- MODULE Spec2Model ----
(***************************************************************************)
(* Speech capture sessions of the Raspberry Pi client:                     *)
(*   audio/speech_processor.py      SpeechProcessor (VAD and push-to-talk) *)
(*   audio/vosk_websocket_client.py VoskWebSocketClient (recogniser)       *)
(*                                                                         *)
(* Time is counted in tenths of a second.  Text is a sequence of           *)
(* characters.  An optional transcript (str | None) is a record            *)
(* [ok, text]: None is [ok |-> FALSE, text |-> <<>>].                        *)
(***************************************************************************)
EXTENDS Integers, Sequences, FiniteSets, TLC

----------------------------------------------------------------------------
(* Bounds of the model *)

\* frames of freely chosen size and energy the audio source delivers
MaxFrames == 3
\* collaborator calls that fail in one session
MaxFaults == 1
\* audio frames the server answers with a message in one session
MaxAnswers == 1
\* longest raw text given to the acceptance filters in SpecFilter
MaxLen == 3
\* clock advance between two reads of time.monotonic(): none, or Step
Step == 40

----------------------------------------------------------------------------
(* Text: str.strip, str.lower, str.split *)

Chars == {" ", "a", "t", "h", "e", "T", "o", "k", "g"}

IsSpace(c) == c = " "

LowerChar(c) == IF c = "T" THEN "t" ELSE c

Lower(s) == [i \in DOMAIN s |-> LowerChar(s[i])]

RECURSIVE LStrip(_)
LStrip(s) ==
  IF s = <<>> THEN <<>>
  ELSE IF IsSpace(Head(s)) THEN LStrip(Tail(s)) ELSE s

RECURSIVE RStrip(_)
RStrip(s) ==
  IF s = <<>> THEN <<>>
  ELSE IF IsSpace(s[Len(s)]) THEN RStrip(SubSeq(s, 1, Len(s) - 1)) ELSE s

Strip(s) == RStrip(LStrip(s))

\* len(s.split()): the number of maximal runs of non-space characters
NumWords(s) ==
  Cardinality({i \in DOMAIN s :
                 /\ ~IsSpace(s[i])
                 /\ (i = 1 \/ IsSpace(s[i - 1]))})

\* f"{a} {b}"
JoinSpace(a, b) == a \o <<" ">> \o b

TheText == <<"t", "h", "e">>

None == [ok |-> FALSE, text |-> <<>>]
Some(t) == [ok |-> TRUE, text |-> t]

----------------------------------------------------------------------------
(* Transcript filters of the two capture calls *)

min_chars_single == 2
min_words_overall == 1
min_transcript_length == 2

\* the noise rule compared without lower()
VadFilterCaseSensitive(final_transcript) ==
  IF final_transcript = <<>> THEN None
  ELSE
    LET ft == Strip(final_transcript)
        num_words == NumWords(ft)
    IN IF ft = <<>> THEN None
       ELSE IF ft = TheText THEN None
       ELSE IF num_words = 0 \/ Len(ft) < min_transcript_length THEN None
       ELSE IF num_words < min_words_overall THEN None
       ELSE IF num_words = 1 /\ Len(ft) < min_chars_single THEN None
       ELSE Some(ft)

\* the length rules applied to the text before strip()
VadFilterRawLength(final_transcript) ==
  IF final_transcript = <<>> THEN None
  ELSE
    LET ft == Strip(final_transcript)
        num_words == NumWords(ft)
    IN IF ft = <<>> THEN None
       ELSE IF Strip(Lower(ft)) = TheText THEN None
       ELSE IF num_words = 0 \/ Len(final_transcript) < min_transcript_length THEN None
       ELSE IF num_words < min_words_overall THEN None
       ELSE IF num_words = 1 /\ Len(final_transcript) < min_chars_single THEN None
       ELSE Some(ft)

\* speech_processor.py 194-229
VadFilter(final_transcript) ==
  IF final_transcript = <<>> THEN None
  ELSE
    LET ft == Strip(final_transcript)
        num_words == NumWords(ft)
    IN IF ft = <<>> THEN None
       ELSE IF Strip(Lower(ft)) = TheText THEN None
       ELSE IF num_words = 0 \/ Len(ft) < min_transcript_length THEN None
       ELSE IF num_words < min_words_overall THEN None
       ELSE IF num_words = 1 /\ Len(ft) < min_chars_single THEN None
       ELSE Some(ft)

\* push-to-talk with the acceptance rules of timed capture
PttFilterAsTimed(final_transcript) == VadFilter(final_transcript)

\* speech_processor.py 300-311
PttFilter(final_transcript) ==
  IF final_transcript = <<>> THEN None
  ELSE
    LET ft == Strip(final_transcript)
    IN IF Strip(Lower(ft)) = TheText THEN None
       ELSE IF ft # <<>> THEN Some(ft)
       ELSE None

----------------------------------------------------------------------------
(* VoskWebSocketClient.  A client is a record                              *)
(*   connected, complete_text, partial_text : the object's fields          *)
(*   response_queue : messages the background handler has received         *)
(*   wire           : messages the server has sent, not yet received       *)
(*   srv_heard      : the server holds audio sent since its last reset     *)

TxtA == <<"a">>
TxtThe == <<"T", "h", "e">>
TxtOkGo == <<"o", "k", " ", "g", "o">>

\* texts the server puts in a message
ServerTexts == {<<>>, TxtThe, TxtOkGo}

Msg(type, text) == [type |-> type, text |-> text]

\* what the server answers to one audio frame: nothing, or one message
FrameAnswers ==
  {<<>>} \cup {<<Msg(ty, t)>> : ty \in {"partial", "final"}, t \in ServerTexts}

\* the text of a final_result: empty when the server holds no audio
FinalResultTexts(heard) == IF heard THEN ServerTexts ELSE {<<>>}

\* _message_handler: k messages move from the socket into response_queue
Deliver(v, k) ==
  [v EXCEPT !.response_queue = @ \o SubSeq(v.wire, 1, k),
            !.wire = SubSeq(v.wire, k + 1, Len(v.wire))]

\* _get_current_text
GetCurrentText(v) ==
  IF v.complete_text # <<>> /\ v.partial_text # <<>>
    THEN JoinSpace(v.complete_text, v.partial_text)
  ELSE IF v.complete_text # <<>> THEN v.complete_text
  ELSE IF v.partial_text # <<>> THEN v.partial_text
  ELSE <<>>

\* the result of a recogniser call: the client afterwards, whether the call
\* raised, and what it returned
Ret(v, raised, is_final, text) ==
  [v |-> v, raised |-> raised, is_final |-> is_final, text |-> text]

\* _process_response
ProcessResponse(v, response) ==
  IF response.type = "final" THEN
    LET text == Strip(response.text) IN
    IF text # <<>> THEN
      LET w == [v EXCEPT !.complete_text =
                           IF v.complete_text # <<>>
                             THEN JoinSpace(v.complete_text, text) ELSE text,
                         !.partial_text = <<>>]
      IN Ret(w, FALSE, TRUE, w.complete_text)
    ELSE Ret(v, FALSE, TRUE, v.complete_text)
  ELSE IF response.type = "partial" THEN
    LET w == [v EXCEPT !.partial_text = Strip(response.text)]
    IN Ret(w, FALSE, FALSE, GetCurrentText(w))
  ELSE Ret(v, FALSE, FALSE, GetCurrentText(v))

\* reset(): connect_ok and send_ok are the outcomes of connect() and of
\* sending the reset command; k messages arrive before the queue is drained
reset(v, connect_ok, send_ok, k) ==
  LET v1 == [v EXCEPT !.complete_text = <<>>, !.partial_text = <<>>] IN
  IF ~v1.connected /\ ~connect_ok THEN Ret(v1, TRUE, FALSE, <<>>)
  ELSE
    LET v2 == IF v1.connected THEN v1
              ELSE [v1 EXCEPT !.connected = TRUE, !.wire = <<>>,
                              !.srv_heard = FALSE]
        v3 == IF send_ok THEN [v2 EXCEPT !.srv_heard = FALSE] ELSE v2
        v4 == Deliver(v3, IF k <= Len(v3.wire) THEN k ELSE Len(v3.wire))
    IN Ret([v4 EXCEPT !.response_queue = <<>>], FALSE, FALSE, <<>>)

\* process_frame(): send_ok is the outcome of sending the frame, answer what
\* the server answers to it, k the messages that arrive within the 0.1 s wait
process_frame(v, send_ok, answer, k) ==
  IF ~v.connected THEN Ret(v, FALSE, FALSE, <<>>)
  ELSE IF ~send_ok THEN Ret(v, FALSE, FALSE, <<>>)
  ELSE
    LET v1 == [v EXCEPT !.wire = @ \o answer, !.srv_heard = TRUE]
        v2 == Deliver(v1, IF k <= Len(v1.wire) THEN k ELSE Len(v1.wire))
    IN IF v2.response_queue # <<>>
         THEN ProcessResponse([v2 EXCEPT !.response_queue = Tail(@)],
                              Head(v2.response_queue))
         ELSE Ret(v2, FALSE, FALSE, GetCurrentText(v2))

\* the wait loop of get_final_text: messages are taken from the queue in
\* order until a final_result, or until the queue stays empty for 2 s
RECURSIVE WaitFinal(_)
WaitFinal(v) ==
  IF v.response_queue = <<>> THEN v
  ELSE
    LET response == Head(v.response_queue)
        rest == [v EXCEPT !.response_queue = Tail(@)]
        text == Strip(response.text)
    IN IF response.type = "final_result" THEN
         IF text # <<>> THEN [rest EXCEPT !.complete_text = text] ELSE rest
       ELSE IF response.type = "partial" THEN
         WaitFinal(IF text # <<>> THEN [rest EXCEPT !.partial_text = text]
                   ELSE rest)
       ELSE IF response.type = "final" THEN
         WaitFinal(IF text # <<>>
                     THEN [rest EXCEPT !.complete_text =
                                         IF rest.complete_text # <<>>
                                           THEN JoinSpace(rest.complete_text, text)
                                           ELSE text,
                                       !.partial_text = <<>>]
                     ELSE rest)
       ELSE WaitFinal(rest)

\* get_final_text(): send_ok is the outcome of sending the final command,
\* final_text the text of the server's final_result, k the messages that
\* arrive within the 2 s wait
get_final_text(v, send_ok, final_text, k) ==
  IF ~v.connected THEN Ret(v, FALSE, FALSE, Strip(v.complete_text))
  ELSE IF ~send_ok THEN Ret(v, FALSE, FALSE, Strip(v.complete_text))
  ELSE
    LET v1 == [v EXCEPT !.wire = @ \o <<Msg("final_result", final_text)>>,
                        !.srv_heard = FALSE]
        v2 == WaitFinal(Deliver(v1, IF k <= Len(v1.wire) THEN k ELSE Len(v1.wire)))
        v3 == IF v2.complete_text = <<>> /\ v2.partial_text # <<>>
                THEN [v2 EXCEPT !.complete_text = v2.partial_text]
                ELSE v2
    IN Ret(v3, FALSE, FALSE, Strip(v3.complete_text))

----------------------------------------------------------------------------
(* SpeechProcessor: one capture call *)

VARIABLES
  mode,                 \* "vad": capture_speech_with_unified_vad, "ptt": capture_speech_push_to_talk
  is_follow_up,         \* argument of the VAD call
  speech_enabled,       \* vosk_readiness.is_speech_enabled()
  audio_manager,        \* sample_rate, frame_length, listening
  vosk,                 \* self.transcriber
  pc,                   \* position of the call
  now,                  \* time.monotonic()
  vad_config,           \* the settings the session runs with
  overall_start_time, start_time, speech_start_time,
  voice_started, silence_frames_count, frame_history,
  pending,              \* what the call is about to return or raise, while finally runs
  outcome,              \* how the call left: "running", "returned", "raised", "cancelled"
  result,               \* the value returned
  mic,                  \* frames the audio source will still deliver
  answers_left, faults_left,
  end_reason,           \* why the loop was left
  log                   \* calls made and frames processed during the session

vars == <<mode, is_follow_up, speech_enabled, audio_manager, vosk, pc, now,
          vad_config, overall_start_time, start_time, speech_start_time,
          voice_started, silence_frames_count, frame_history, pending, outcome,
          result, mic, answers_left, faults_left, end_reason, log>>

session == <<overall_start_time, start_time, speech_start_time, voice_started,
             silence_frames_count, frame_history>>

\* a key the settings do not hold
Absent == -1

Get(config, key, default) == IF config[key] = Absent THEN default ELSE config[key]

\* settings the configuration may supply (durations in tenths of a second)
VadConfigs ==
  { [energy_threshold |-> 10, continued_threshold |-> Absent,
     silence_duration |-> 10, min_speech_duration |-> 40,
     speech_buffer_time |-> Absent, max_recording_time |-> 80],
    [energy_threshold |-> 10, continued_threshold |-> 10,
     silence_duration |-> 5, min_speech_duration |-> Absent,
     speech_buffer_time |-> 10, max_recording_time |-> 80] }

\* frame energies the microphone produces
EnergyLevels == {0, 7, 12}

Frame(e) == [size_ok |-> TRUE, energy |-> e]
WrongSizeFrame == [size_ok |-> FALSE, energy |-> 0]

frame_history_length == 20
initial_timeout_follow_up == 40
initial_timeout_first == 80
ptt_max_recording_time == 600
default_silence_duration == 30
default_min_speech_duration == 4
default_speech_buffer_time == 10
default_max_recording_time == 450

energy_threshold == vad_config.energy_threshold
\* the fallback taken as energy_threshold / 0.6
continued_threshold_x10_Divided ==
  IF vad_config.continued_threshold = Absent
    THEN (100 * energy_threshold) \div 6 ELSE 10 * vad_config.continued_threshold

\* continued_threshold times 10: the default is energy_threshold * 0.6
continued_threshold_x10 ==
  IF vad_config.continued_threshold = Absent
    THEN 6 * energy_threshold ELSE 10 * vad_config.continued_threshold
silence_duration == Get(vad_config, "silence_duration", default_silence_duration)
min_speech_duration == Get(vad_config, "min_speech_duration", default_min_speech_duration)
speech_buffer_time == Get(vad_config, "speech_buffer_time", default_speech_buffer_time)
max_recording_time == Get(vad_config, "max_recording_time", default_max_recording_time)
initial_timeout == IF is_follow_up THEN initial_timeout_follow_up ELSE initial_timeout_first

\* int(silence_duration * sample_rate / frame_length), silence_duration in tenths
silence_frames_needed ==
  (silence_duration * audio_manager.sample_rate) \div (10 * audio_manager.frame_length)

RECURSIVE Sum(_)
Sum(s) == IF s = <<>> THEN 0 ELSE Head(s) + Sum(Tail(s))

\* the window that never evicts a reading
PushHistoryNoEviction(h, e) == Append(h, e)

\* frame_history.append(current_energy), pop(0) beyond frame_history_length
PushHistory(h, e) ==
  LET h1 == Append(h, e)
  IN IF Len(h1) > frame_history_length THEN Tail(h1) ELSE h1

\* avg_energy > energy_threshold
AvgAboveStart(h) == Sum(h) > energy_threshold * Len(h)
\* the starting threshold used for continuation as well
AvgAboveContinuedNoHysteresis(h) == Sum(h) > energy_threshold * Len(h)

\* the continuation test passed at an average equal to continued_threshold
AvgAboveContinuedAtEqual(h) == 10 * Sum(h) >= continued_threshold_x10 * Len(h)

\* avg_energy > continued_threshold
AvgAboveContinued(h) == 10 * Sum(h) > continued_threshold_x10 * Len(h)

\* the clock read at the top of an iteration
ClockReads == {now, now + Step}

Repeat(e, n) == [i \in 1..n |-> Frame(e)]

\* recordings given frame by frame; in the long ones the window of 20
\* readings fills and slides
LongScripts ==
  { Repeat(0, 1) \o Repeat(20, 1) \o Repeat(10, 18) \o Repeat(1, 1) \o Repeat(11, 2),
    Repeat(0, 19) \o Repeat(200, 1) \o Repeat(0, 18) \o Repeat(1, 1) \o Repeat(7, 2),
    Repeat(12, 2) \o Repeat(0, 2) }

\* what the environment of one session does: mic.free frames of any size and
\* energy or the frames of mic.script, this many server answers and failures
Scenarios ==
  { [free |-> MaxFrames, script |-> <<>>, answers |-> 0, faults |-> 0],
    [free |-> MaxFrames - 1, script |-> <<>>, answers |-> MaxAnswers, faults |-> 0],
    [free |-> 1, script |-> <<>>, answers |-> MaxAnswers, faults |-> MaxFaults] }
  \cup { [free |-> 0, script |-> s, answers |-> 0, faults |-> 0] : s \in LongScripts }

NoLog == [initialize_input |-> 0, start_listening |-> 0, stop_listening |-> 0,
          reset |-> 0, get_final_text |-> 0, buffer_sleep |-> 0,
          stream |-> FALSE, final_text |-> <<>>, frames |-> <<>>,
          frame_time |-> 0, drop_time |-> Absent, finals |-> FALSE]

Init ==
  /\ mode \in {"vad", "ptt"}
  /\ is_follow_up \in (IF mode = "vad" THEN BOOLEAN ELSE {FALSE})
  /\ speech_enabled \in BOOLEAN
  /\ audio_manager = [sample_rate |-> 16000, frame_length |-> 8000, listening |-> FALSE]
  /\ vosk \in {[connected |-> c, complete_text |-> <<>>, partial_text |-> <<>>,
                response_queue |-> <<>>, wire |-> <<>>, srv_heard |-> FALSE] :
               c \in BOOLEAN}
  /\ pc = "call"
  /\ now = 0
  /\ vad_config \in VadConfigs
  /\ overall_start_time = 0 /\ start_time = 0 /\ speech_start_time = 0
  /\ voice_started = FALSE /\ silence_frames_count = 0 /\ frame_history = <<>>
  /\ pending = [kind |-> "none", value |-> None]
  /\ outcome = "running"
  /\ result = None
  /\ \E sc \in Scenarios :
       /\ mic = [free |-> sc.free, script |-> sc.script]
       /\ answers_left = sc.answers
       /\ faults_left = sc.faults
  /\ end_reason = "none"
  /\ log = NoLog

\* the call leaves at once, without entering try/finally
Leave(how, value) ==
  /\ pc' = "done"
  /\ outcome' = how
  /\ result' = value

\* an exception is raised inside the try block: except Exception returns None
\* and the finally block runs
Caught ==
  /\ pc' = "finally"
  /\ pending' = [kind |-> "return", value |-> None]
  /\ end_reason' = "Exception"

\* the same call with the input opened whatever the readiness flag says
BeginWithoutReadinessCheck ==
  /\ pc = "call"
  /\ UNCHANGED <<mode, is_follow_up, speech_enabled, vosk, now, vad_config, session,
                 pending, mic, answers_left, end_reason>>
  /\ \/ /\ ~speech_enabled
        /\ Leave("returned", None)
        /\ UNCHANGED <<audio_manager, faults_left, log>>
     \/ /\ faults_left > 0
        /\ \E at \in {"update_display", "initialize_input", "start_listening"} :
             /\ IF ~speech_enabled THEN at = "update_display" ELSE TRUE
             /\ log' = [log EXCEPT
                  !.initialize_input = IF at = "update_display" THEN 0 ELSE 1,
                  !.start_listening = IF at = "start_listening" THEN 1 ELSE 0]
        /\ faults_left' = faults_left - 1
        /\ Leave("raised", None)
        /\ UNCHANGED audio_manager
     \/ /\ TRUE
        /\ \E stream \in BOOLEAN :
             /\ log' = [log EXCEPT !.initialize_input = 1, !.start_listening = 1,
                                   !.stream = stream]
             /\ audio_manager' = [audio_manager EXCEPT !.listening = stream]
             /\ IF stream
                  THEN pc' = "setup" /\ UNCHANGED <<outcome, result>>
                  ELSE Leave("returned", None)
        /\ UNCHANGED faults_left

\* lines 43-58 and 244-256: readiness check, display update, initialize_input,
\* start_listening
Begin ==
  /\ pc = "call"
  /\ UNCHANGED <<mode, is_follow_up, speech_enabled, vosk, now, vad_config, session,
                 pending, mic, answers_left, end_reason>>
  /\ \/ /\ ~speech_enabled
        /\ Leave("returned", None)
        /\ UNCHANGED <<audio_manager, faults_left, log>>
     \/ /\ faults_left > 0
        /\ \E at \in {"update_display", "initialize_input", "start_listening"} :
             /\ IF ~speech_enabled THEN at = "update_display" ELSE TRUE
             /\ log' = [log EXCEPT
                  !.initialize_input = IF at = "update_display" THEN 0 ELSE 1,
                  !.start_listening = IF at = "start_listening" THEN 1 ELSE 0]
        /\ faults_left' = faults_left - 1
        /\ Leave("raised", None)
        /\ UNCHANGED audio_manager
     \/ /\ speech_enabled
        /\ \E stream \in BOOLEAN :
             /\ log' = [log EXCEPT !.initialize_input = 1, !.start_listening = 1,
                                   !.stream = stream]
             /\ audio_manager' = [audio_manager EXCEPT !.listening = stream]
             /\ IF stream
                  THEN pc' = "setup" /\ UNCHANGED <<outcome, result>>
                  ELSE Leave("returned", None)
        /\ UNCHANGED faults_left

\* the outcomes a send over the socket can have
SendOutcomes == IF faults_left > 0 THEN BOOLEAN ELSE {TRUE}

\* lines 60-95 and 258-261: settings, transcriber.reset(), start time
Setup ==
  /\ pc = "setup"
  /\ UNCHANGED <<mode, is_follow_up, speech_enabled, audio_manager, now, vad_config,
                 speech_start_time, voice_started, silence_frames_count,
                 frame_history, pending, mic, answers_left, end_reason>>
  /\ \/ /\ mode = "vad"
        /\ faults_left > 0
        /\ faults_left' = faults_left - 1
        /\ Leave("raised", None)
        /\ UNCHANGED <<vosk, overall_start_time, start_time, log>>
     \/ \E connect_ok \in BOOLEAN, send_ok \in SendOutcomes, k \in 0..Len(vosk.wire) :
          LET r == reset(vosk, connect_ok, send_ok, k) IN
          /\ faults_left' = IF send_ok THEN faults_left ELSE faults_left - 1
          /\ vosk' = r.v
          /\ log' = [log EXCEPT !.reset = @ + 1]
          /\ IF r.raised
               THEN /\ Leave("raised", None)
                    /\ UNCHANGED <<overall_start_time, start_time>>
               ELSE /\ pc' = "loop"
                    /\ IF mode = "vad"
                         THEN overall_start_time' = now /\ UNCHANGED start_time
                         ELSE start_time' = now /\ UNCHANGED overall_start_time
                    /\ UNCHANGED <<outcome, result>>

\* what every step of the loop leaves alone
LoopFrame == UNCHANGED <<mode, is_follow_up, speech_enabled, audio_manager,
                         vad_config, overall_start_time, start_time, outcome, result>>

\* read_audio_frame(): the frames the source may return now
FramesAvailable ==
  IF mic.script # <<>> THEN {Head(mic.script)}
  ELSE IF mic.free > 0 THEN {Frame(e) : e \in EnergyLevels} \cup {WrongSizeFrame}
  ELSE {}

MicAfterFrame ==
  IF mic.script # <<>> THEN [mic EXCEPT !.script = Tail(@)]
  ELSE [mic EXCEPT !.free = @ - 1]

\* what the server may answer to a frame
AnswersAvailable == IF answers_left > 0 THEN FrameAnswers ELSE {<<>>}

\* the timeout taken at an elapsed time equal to initial_timeout
InitialTimeoutDueAtEqual(current_time) ==
  ~voice_started /\ current_time - overall_start_time >= initial_timeout

\* line 110
InitialTimeoutDue(current_time) ==
  ~voice_started /\ current_time - overall_start_time > initial_timeout

\* the ceiling taken at an elapsed speech time equal to max_recording_time
MaxDurationDueAtEqual(current_time) ==
  voice_started /\ current_time - speech_start_time >= max_recording_time

\* line 114
MaxDurationDue(current_time) ==
  voice_started /\ current_time - speech_start_time > max_recording_time

\* line 103
ManualStopKeepsSpeech(current_time) ==
  voice_started /\ current_time - speech_start_time > min_speech_duration

\* the silence rule taken one frame late
SilenceEndsStrict(silence, speech_duration) ==
  silence > silence_frames_needed /\ speech_duration >= min_speech_duration

\* line 175
SilenceEnds(silence, speech_duration) ==
  silence >= silence_frames_needed /\ speech_duration >= min_speech_duration

\* a final segment ending the session whatever the speech duration
FinalEndsUngated(is_final_vosk, speech_duration) == is_final_vosk

\* line 180
FinalEnds(is_final_vosk, speech_duration) ==
  is_final_vosk /\ speech_duration >= min_speech_duration

\* lines 99-107: _check_manual_vad_stop() returns True
VadManualStop ==
  /\ pc = "loop" /\ mode = "vad"
  /\ LoopFrame
  /\ UNCHANGED <<session, mic, answers_left>>
  /\ \E current_time \in ClockReads :
       /\ now' = current_time
       /\ IF ManualStopKeepsSpeech(current_time)
            THEN /\ pc' = "sleep_buffer"
                 /\ end_reason' = "ManualStopWithSpeech"
                 /\ UNCHANGED <<vosk, pending, faults_left, log>>
            ELSE \E connect_ok \in BOOLEAN, send_ok \in SendOutcomes,
                    k \in 0..Len(vosk.wire) :
                   LET r == reset(vosk, connect_ok, send_ok, k) IN
                   /\ vosk' = r.v
                   /\ faults_left' = IF send_ok THEN faults_left ELSE faults_left - 1
                   /\ log' = [log EXCEPT !.reset = @ + 1]
                   /\ IF r.raised
                        THEN Caught
                        ELSE /\ pc' = "final"
                             /\ end_reason' = "ManualStopWithoutSpeech"
                             /\ UNCHANGED pending

\* lines 109-112
VadInitialTimeout ==
  /\ pc = "loop" /\ mode = "vad"
  /\ LoopFrame
  /\ UNCHANGED <<session, mic, answers_left, vosk, faults_left, log>>
  /\ \E current_time \in ClockReads :
       /\ now' = current_time
       /\ InitialTimeoutDue(current_time)
       /\ pc' = "finally"
       /\ pending' = [kind |-> "return", value |-> None]
       /\ end_reason' = "InitialTimeout"

\* the ceiling followed by the speech_buffer_time pause
VadMaxDurationWithPause ==
  /\ pc = "loop" /\ mode = "vad"
  /\ LoopFrame
  /\ UNCHANGED <<session, mic, answers_left, vosk, faults_left, log, pending>>
  /\ \E current_time \in ClockReads :
       /\ now' = current_time
       /\ ~InitialTimeoutDue(current_time)
       /\ MaxDurationDue(current_time)
       /\ pc' = "sleep_buffer"
       /\ end_reason' = "MaxDuration"

\* lines 114-116
VadMaxDuration ==
  /\ pc = "loop" /\ mode = "vad"
  /\ LoopFrame
  /\ UNCHANGED <<session, mic, answers_left, vosk, faults_left, log, pending>>
  /\ \E current_time \in ClockReads :
       /\ now' = current_time
       /\ ~InitialTimeoutDue(current_time)
       /\ MaxDurationDue(current_time)
       /\ pc' = "final"
       /\ end_reason' = "MaxDuration"

\* the no-frame step of a loop that read the clock once, before the loop
VadNoFrameStaleClock ==
  /\ pc = "loop" /\ mode = "vad"
  /\ LoopFrame
  /\ UNCHANGED <<session, mic, answers_left, vosk, faults_left, log, pending,
                 end_reason, now>>
  /\ ~InitialTimeoutDue(now)
  /\ ~MaxDurationDue(now)
  /\ pc' = "sleep_frame"

\* lines 119-122: no frame is buffered
VadNoFrame ==
  /\ pc = "loop" /\ mode = "vad"
  /\ LoopFrame
  /\ UNCHANGED <<session, mic, answers_left, vosk, faults_left, log, pending,
                 end_reason>>
  /\ \E current_time \in ClockReads :
       /\ now' = current_time
       /\ ~InitialTimeoutDue(current_time)
       /\ ~MaxDurationDue(current_time)
       /\ pc' = "sleep_frame"

\* a frame of the wrong size whose readings enter the smoothing window
VadBadFrameCounted ==
  /\ pc = "loop" /\ mode = "vad"
  /\ LoopFrame
  /\ UNCHANGED <<overall_start_time, start_time, speech_start_time, voice_started,
                 silence_frames_count, answers_left, vosk, faults_left, log,
                 pending, end_reason, pc>>
  /\ \E current_time \in ClockReads, frame \in FramesAvailable :
       /\ ~frame.size_ok
       /\ now' = current_time
       /\ ~InitialTimeoutDue(current_time)
       /\ ~MaxDurationDue(current_time)
       /\ frame_history' = PushHistory(frame_history, frame.energy)
       /\ mic' = MicAfterFrame

\* lines 124-127: a frame of the wrong size
VadBadFrame ==
  /\ pc = "loop" /\ mode = "vad"
  /\ LoopFrame
  /\ UNCHANGED <<session, answers_left, vosk, faults_left, log, pending,
                 end_reason, pc>>
  /\ \E current_time \in ClockReads, frame \in FramesAvailable :
       /\ ~frame.size_ok
       /\ now' = current_time
       /\ ~InitialTimeoutDue(current_time)
       /\ ~MaxDurationDue(current_time)
       /\ mic' = MicAfterFrame

\* the same step with an exception of process_frame leaving the loop
VadFrameFaultEndsSession ==
  /\ pc = "loop" /\ mode = "vad"
  /\ LoopFrame
  /\ \E current_time \in ClockReads, frame \in FramesAvailable,
        raises \in {r \in BOOLEAN : r => faults_left > 0},
        send_ok \in SendOutcomes, answer \in AnswersAvailable,
        k \in 0..(Len(vosk.wire) + 1) :
       LET r == process_frame(vosk, send_ok, answer, k)
           is_final_vosk == IF raises THEN FALSE ELSE r.is_final
           current_energy == frame.energy
           history == PushHistory(frame_history, current_energy)
           silence == IF AvgAboveContinued(history) THEN 0
                      ELSE silence_frames_count + 1
           speech_duration == current_time - speech_start_time
       IN
       /\ frame.size_ok
       /\ now' = current_time
       /\ ~InitialTimeoutDue(current_time)
       /\ ~MaxDurationDue(current_time)
       /\ raises => send_ok
       /\ k <= Len(vosk.wire) + Len(answer)
       /\ mic' = MicAfterFrame
       /\ answers_left' = IF answer # <<>> THEN answers_left - 1 ELSE answers_left
       /\ vosk' = IF raises THEN vosk ELSE r.v
       /\ faults_left' = IF raises \/ ~send_ok THEN faults_left - 1 ELSE faults_left
       /\ frame_history' = history
       /\ log' = [log EXCEPT
            !.frames = Append(@, [energy |-> current_energy, active |-> voice_started,
                                  final |-> is_final_vosk]),
            !.frame_time = current_time,
            !.drop_time = IF voice_started /\ @ = Absent /\ current_energy = 0
                            THEN current_time ELSE @]
       /\ IF raises THEN
            /\ Caught
            /\ UNCHANGED <<voice_started, speech_start_time, silence_frames_count>>
          ELSE IF ~voice_started THEN
            /\ UNCHANGED pending
            /\ IF AvgAboveStart(history)
                 THEN /\ voice_started' = TRUE
                      /\ speech_start_time' = current_time
                      /\ silence_frames_count' = 0
                 ELSE UNCHANGED <<voice_started, speech_start_time,
                                  silence_frames_count>>
            /\ UNCHANGED <<pc, end_reason>>
          ELSE
            /\ UNCHANGED pending
            /\ silence_frames_count' = silence
            /\ UNCHANGED <<voice_started, speech_start_time>>
            /\ IF SilenceEnds(silence, speech_duration)
                 THEN pc' = "sleep_buffer" /\ end_reason' = "SilenceTimeout"
               ELSE IF FinalEnds(is_final_vosk, speech_duration)
                 THEN pc' = "final" /\ end_reason' = "RecognizerFinal"
               ELSE UNCHANGED <<pc, end_reason>>

\* the same step with the final segment tested before the silence rule
VadFrameFinalFirst ==
  /\ pc = "loop" /\ mode = "vad"
  /\ LoopFrame
  /\ UNCHANGED pending
  /\ \E current_time \in ClockReads, frame \in FramesAvailable,
        raises \in {r \in BOOLEAN : r => faults_left > 0},
        send_ok \in SendOutcomes, answer \in AnswersAvailable,
        k \in 0..(Len(vosk.wire) + 1) :
       LET r == process_frame(vosk, send_ok, answer, k)
           is_final_vosk == IF raises THEN FALSE ELSE r.is_final
           current_energy == frame.energy
           history == PushHistory(frame_history, current_energy)
           silence == IF AvgAboveContinued(history) THEN 0
                      ELSE silence_frames_count + 1
           speech_duration == current_time - speech_start_time
       IN
       /\ frame.size_ok
       /\ now' = current_time
       /\ ~InitialTimeoutDue(current_time)
       /\ ~MaxDurationDue(current_time)
       /\ raises => send_ok
       /\ k <= Len(vosk.wire) + Len(answer)
       /\ mic' = MicAfterFrame
       /\ answers_left' = IF answer # <<>> THEN answers_left - 1 ELSE answers_left
       /\ vosk' = IF raises THEN vosk ELSE r.v
       /\ faults_left' = IF raises \/ ~send_ok THEN faults_left - 1 ELSE faults_left
       /\ frame_history' = history
       /\ log' = [log EXCEPT
            !.frames = Append(@, [energy |-> current_energy, active |-> voice_started,
                                  final |-> is_final_vosk]),
            !.frame_time = current_time,
            !.drop_time = IF voice_started /\ @ = Absent /\ current_energy = 0
                            THEN current_time ELSE @]
       /\ IF ~voice_started THEN
            /\ IF AvgAboveStart(history)
                 THEN /\ voice_started' = TRUE
                      /\ speech_start_time' = current_time
                      /\ silence_frames_count' = 0
                 ELSE UNCHANGED <<voice_started, speech_start_time,
                                  silence_frames_count>>
            /\ UNCHANGED <<pc, end_reason>>
          ELSE
            /\ silence_frames_count' = silence
            /\ UNCHANGED <<voice_started, speech_start_time>>
            /\ IF FinalEnds(is_final_vosk, speech_duration)
                 THEN pc' = "final" /\ end_reason' = "RecognizerFinal"
               ELSE IF SilenceEnds(silence, speech_duration)
                 THEN pc' = "sleep_buffer" /\ end_reason' = "SilenceTimeout"
               ELSE UNCHANGED <<pc, end_reason>>

\* the same step with the final-segment signal kept from earlier frames
VadFrameFinalLatched ==
  /\ pc = "loop" /\ mode = "vad"
  /\ LoopFrame
  /\ UNCHANGED pending
  /\ \E current_time \in ClockReads, frame \in FramesAvailable,
        raises \in {r \in BOOLEAN : r => faults_left > 0},
        send_ok \in SendOutcomes, answer \in AnswersAvailable,
        k \in 0..(Len(vosk.wire) + 1) :
       LET r == process_frame(vosk, send_ok, answer, k)
           reported == IF raises THEN FALSE ELSE r.is_final
           is_final_vosk == reported \/ \E i \in DOMAIN log.frames : log.frames[i].final
           current_energy == frame.energy
           history == PushHistory(frame_history, current_energy)
           silence == IF AvgAboveContinued(history) THEN 0
                      ELSE silence_frames_count + 1
           speech_duration == current_time - speech_start_time
       IN
       /\ frame.size_ok
       /\ now' = current_time
       /\ ~InitialTimeoutDue(current_time)
       /\ ~MaxDurationDue(current_time)
       /\ raises => send_ok
       /\ k <= Len(vosk.wire) + Len(answer)
       /\ mic' = MicAfterFrame
       /\ answers_left' = IF answer # <<>> THEN answers_left - 1 ELSE answers_left
       /\ vosk' = IF raises THEN vosk ELSE r.v
       /\ faults_left' = IF raises \/ ~send_ok THEN faults_left - 1 ELSE faults_left
       /\ frame_history' = history
       /\ log' = [log EXCEPT
            !.frames = Append(@, [energy |-> current_energy, active |-> voice_started,
                                  final |-> reported]),
            !.frame_time = current_time,
            !.drop_time = IF voice_started /\ @ = Absent /\ current_energy = 0
                            THEN current_time ELSE @]
       /\ IF ~voice_started THEN
            /\ IF AvgAboveStart(history)
                 THEN /\ voice_started' = TRUE
                      /\ speech_start_time' = current_time
                      /\ silence_frames_count' = 0
                 ELSE UNCHANGED <<voice_started, speech_start_time,
                                  silence_frames_count>>
            /\ UNCHANGED <<pc, end_reason>>
          ELSE
            /\ silence_frames_count' = silence
            /\ UNCHANGED <<voice_started, speech_start_time>>
            /\ IF SilenceEnds(silence, speech_duration)
                 THEN pc' = "sleep_buffer" /\ end_reason' = "SilenceTimeout"
               ELSE IF FinalEnds(is_final_vosk, speech_duration)
                 THEN pc' = "final" /\ end_reason' = "RecognizerFinal"
               ELSE UNCHANGED <<pc, end_reason>>

\* lines 129-188: a frame of the right size
VadFrame ==
  /\ pc = "loop" /\ mode = "vad"
  /\ LoopFrame
  /\ UNCHANGED pending
  /\ \E current_time \in ClockReads, frame \in FramesAvailable,
        raises \in {r \in BOOLEAN : r => faults_left > 0},
        send_ok \in SendOutcomes, answer \in AnswersAvailable,
        k \in 0..(Len(vosk.wire) + 1) :
       LET r == process_frame(vosk, send_ok, answer, k)
           is_final_vosk == IF raises THEN FALSE ELSE r.is_final
           current_energy == frame.energy
           history == PushHistory(frame_history, current_energy)
           silence == IF AvgAboveContinued(history) THEN 0
                      ELSE silence_frames_count + 1
           speech_duration == current_time - speech_start_time
       IN
       /\ frame.size_ok
       /\ now' = current_time
       /\ ~InitialTimeoutDue(current_time)
       /\ ~MaxDurationDue(current_time)
       /\ raises => send_ok
       /\ k <= Len(vosk.wire) + Len(answer)
       /\ mic' = MicAfterFrame
       /\ answers_left' = IF answer # <<>> THEN answers_left - 1 ELSE answers_left
       /\ vosk' = IF raises THEN vosk ELSE r.v
       /\ faults_left' = IF raises \/ ~send_ok THEN faults_left - 1 ELSE faults_left
       /\ frame_history' = history
       /\ log' = [log EXCEPT
            !.frames = Append(@, [energy |-> current_energy, active |-> voice_started,
                                  final |-> is_final_vosk]),
            !.frame_time = current_time,
            !.drop_time = IF voice_started /\ @ = Absent /\ current_energy = 0
                            THEN current_time ELSE @]
       /\ IF ~voice_started THEN
            /\ IF AvgAboveStart(history)
                 THEN /\ voice_started' = TRUE
                      /\ speech_start_time' = current_time
                      /\ silence_frames_count' = 0
                 ELSE UNCHANGED <<voice_started, speech_start_time,
                                  silence_frames_count>>
            /\ UNCHANGED <<pc, end_reason>>
          ELSE
            /\ silence_frames_count' = silence
            /\ UNCHANGED <<voice_started, speech_start_time>>
            /\ IF SilenceEnds(silence, speech_duration)
                 THEN pc' = "sleep_buffer" /\ end_reason' = "SilenceTimeout"
               ELSE IF FinalEnds(is_final_vosk, speech_duration)
                 THEN pc' = "final" /\ end_reason' = "RecognizerFinal"
               ELSE UNCHANGED <<pc, end_reason>>

\* the ceiling taken at an elapsed time equal to it
PttMaxTimeDueAtEqual(current_time) == current_time - start_time >= ptt_max_recording_time

\* line 273
PttMaxTimeDue(current_time) == current_time - start_time > ptt_max_recording_time

\* lines 265-270: _check_manual_vad_stop() returns True
PttManualStop ==
  /\ pc = "loop" /\ mode = "ptt"
  /\ LoopFrame
  /\ UNCHANGED <<session, mic, answers_left, vosk, faults_left, log, pending>>
  /\ now' \in ClockReads
  /\ pc' = "final"
  /\ end_reason' = "ManualStop"

\* lines 272-275
PttMaxTime ==
  /\ pc = "loop" /\ mode = "ptt"
  /\ LoopFrame
  /\ UNCHANGED <<session, mic, answers_left, vosk, faults_left, log, pending>>
  /\ \E current_time \in ClockReads :
       /\ now' = current_time
       /\ PttMaxTimeDue(current_time)
       /\ pc' = "final"
       /\ end_reason' = "MaxDuration"

\* lines 277-281: no frame is buffered
PttNoFrame ==
  /\ pc = "loop" /\ mode = "ptt"
  /\ LoopFrame
  /\ UNCHANGED <<session, mic, answers_left, vosk, faults_left, log, pending,
                 end_reason>>
  /\ \E current_time \in ClockReads :
       /\ now' = current_time
       /\ ~PttMaxTimeDue(current_time)
       /\ pc' = "sleep_frame"

\* lines 283-294: a frame of any size and energy goes to the recogniser
PttFrame ==
  /\ pc = "loop" /\ mode = "ptt"
  /\ LoopFrame
  /\ UNCHANGED <<session, pending, end_reason, pc>>
  /\ \E current_time \in ClockReads, frame \in FramesAvailable,
        raises \in {r \in BOOLEAN : r => faults_left > 0},
        send_ok \in SendOutcomes, answer \in AnswersAvailable,
        k \in 0..(Len(vosk.wire) + 1) :
       LET r == process_frame(vosk, send_ok, answer, k) IN
       /\ now' = current_time
       /\ ~PttMaxTimeDue(current_time)
       /\ raises => send_ok
       /\ k <= Len(vosk.wire) + Len(answer)
       /\ mic' = MicAfterFrame
       /\ answers_left' = IF answer # <<>> THEN answers_left - 1 ELSE answers_left
       /\ vosk' = IF raises THEN vosk ELSE r.v
       /\ faults_left' = IF raises \/ ~send_ok THEN faults_left - 1 ELSE faults_left
       /\ log' = [log EXCEPT !.finals = @ \/ (~raises /\ r.is_final)]

\* _check_manual_vad_stop() or read_audio_frame() raises
LoopFault ==
  /\ pc = "loop"
  /\ LoopFrame
  /\ UNCHANGED <<session, mic, answers_left, vosk, log>>
  /\ faults_left > 0
  /\ faults_left' = faults_left - 1
  /\ now' \in ClockReads
  /\ Caught

\* asyncio.sleep(0.005) returns
SleepFrameWake ==
  /\ pc = "sleep_frame"
  /\ pc' = "loop"
  /\ LoopFrame
  /\ UNCHANGED <<session, mic, answers_left, vosk, faults_left, log, pending,
                 end_reason, now>>

\* asyncio.sleep(speech_buffer_time) returns
SleepBufferWake ==
  /\ pc = "sleep_buffer"
  /\ pc' = "final"
  /\ now' = now + speech_buffer_time
  /\ log' = [log EXCEPT !.buffer_sleep = @ + 1]
  /\ LoopFrame
  /\ UNCHANGED <<session, mic, answers_left, vosk, faults_left, pending, end_reason>>

\* a cancellation that unwinds without running the finally block
CancelSkipsFinally ==
  /\ pc \in {"sleep_frame", "sleep_buffer"}
  /\ pc' = "done"
  /\ outcome' = "cancelled"
  /\ pending' = [kind |-> "cancelled", value |-> None]
  /\ end_reason' = "Cancelled"
  /\ UNCHANGED <<mode, is_follow_up, speech_enabled, audio_manager, vad_config,
                 result, session, mic, answers_left, vosk, faults_left, log, now>>

\* the caller cancels the task while it is suspended in a sleep:
\* CancelledError is not an Exception, so only the finally block runs
Cancel ==
  /\ pc \in {"sleep_frame", "sleep_buffer"}
  /\ pc' = "finally"
  /\ pending' = [kind |-> "cancelled", value |-> None]
  /\ end_reason' = "Cancelled"
  /\ LoopFrame
  /\ UNCHANGED <<session, mic, answers_left, vosk, faults_left, log, now>>

\* lines 190-229 and 296-311: get_final_text() and the filter
Finalize ==
  /\ pc = "final"
  /\ LoopFrame
  /\ UNCHANGED <<session, mic, answers_left, now>>
  /\ \/ /\ faults_left > 0
        /\ faults_left' = faults_left - 1
        /\ Caught
        /\ UNCHANGED <<vosk, log>>
     \/ \E send_ok \in SendOutcomes, final_text \in FinalResultTexts(vosk.srv_heard),
           k \in 0..(Len(vosk.wire) + 1) :
          LET r == get_final_text(vosk, send_ok, final_text, k) IN
          /\ vosk' = r.v
          /\ faults_left' = IF send_ok THEN faults_left ELSE faults_left - 1
          /\ log' = [log EXCEPT !.get_final_text = @ + 1, !.final_text = r.text]
          /\ pending' = [kind |-> "return",
                         value |-> IF mode = "vad" THEN VadFilter(r.text)
                                   ELSE PttFilter(r.text)]
          /\ pc' = "finally"
          /\ UNCHANGED end_reason

\* lines 236-239 and 318-321: stop_listening()
Finally ==
  /\ pc = "finally"
  /\ pc' = "done"
  /\ audio_manager' = [audio_manager EXCEPT !.listening = FALSE]
  /\ \E raises \in {r \in BOOLEAN : r => faults_left > 0} :
       /\ faults_left' = IF raises THEN faults_left - 1 ELSE faults_left
       /\ log' = [log EXCEPT !.stop_listening = @ + 1]
       /\ IF raises THEN outcome' = "raised" /\ UNCHANGED result
          ELSE IF pending.kind = "cancelled"
            THEN outcome' = "cancelled" /\ UNCHANGED result
          ELSE outcome' = "returned" /\ result' = pending.value
  /\ UNCHANGED <<mode, is_follow_up, speech_enabled, vad_config, session,
                 mic, answers_left, vosk, now, pending, end_reason>>

\* _message_handler ends on ConnectionClosed
ConnectionClosed ==
  /\ pc \in {"loop", "sleep_frame", "sleep_buffer", "final"}
  /\ vosk.connected
  /\ faults_left > 0
  /\ faults_left' = faults_left - 1
  /\ vosk' = [vosk EXCEPT !.connected = FALSE]
  /\ LoopFrame
  /\ UNCHANGED <<session, mic, answers_left, pending, end_reason, now, pc, log>>

Next ==
  \/ Begin
  \/ Setup
  \/ VadManualStop
  \/ VadInitialTimeout
  \/ VadMaxDuration
  \/ VadNoFrame
  \/ VadBadFrame
  \/ VadFrame
  \/ PttManualStop
  \/ PttMaxTime
  \/ PttNoFrame
  \/ PttFrame
  \/ LoopFault
  \/ SleepFrameWake
  \/ SleepBufferWake
  \/ Cancel
  \/ Finalize
  \/ Finally
  \/ ConnectionClosed

Spec == Init /\ [][Next]_vars

----------------------------------------------------------------------------
(* The transcript filters alone: the call stands after get_final_text()    *)
(* returned raw text, and lines 194-229 or 300-311 are applied to it       *)

RECURSIVE Strings(_)
Strings(n) ==
  IF n = 0 THEN {<<>>}
  ELSE LET shorter == Strings(n - 1)
       IN shorter \cup {Append(s, c) : s \in shorter, c \in Chars}

RawTexts == Strings(MaxLen) \cup {TxtOkGo, TxtThe \o <<" ">>, <<" ">> \o TxtOkGo}

InitFilter ==
  /\ mode \in {"vad", "ptt"}
  /\ is_follow_up = FALSE
  /\ speech_enabled = TRUE
  /\ audio_manager = [sample_rate |-> 16000, frame_length |-> 8000, listening |-> TRUE]
  /\ vosk = [connected |-> FALSE, complete_text |-> <<>>, partial_text |-> <<>>,
             response_queue |-> <<>>, wire |-> <<>>, srv_heard |-> FALSE]
  /\ pc = "filter"
  /\ now = 0
  /\ vad_config \in VadConfigs
  /\ overall_start_time = 0 /\ start_time = 0 /\ speech_start_time = 0
  /\ voice_started = FALSE /\ silence_frames_count = 0 /\ frame_history = <<>>
  /\ pending = [kind |-> "none", value |-> None]
  /\ outcome = "running"
  /\ result = None
  /\ mic = [free |-> 0, script |-> <<>>]
  /\ answers_left = 0
  /\ faults_left = 0
  /\ end_reason = "ManualStop"
  /\ \E raw \in RawTexts :
       log = [NoLog EXCEPT !.stream = TRUE, !.reset = 1, !.get_final_text = 1,
                           !.final_text = raw]

\* lines 194-229 and 300-311
ApplyFilter ==
  /\ pc = "filter"
  /\ pc' = "finally"
  /\ pending' = [kind |-> "return",
                 value |-> IF mode = "vad" THEN VadFilter(log.final_text)
                           ELSE PttFilter(log.final_text)]
  /\ UNCHANGED <<mode, is_follow_up, speech_enabled, audio_manager, vosk, now,
                 vad_config, session, outcome, result, mic, answers_left,
                 faults_left, end_reason, log>>

NextFilter == ApplyFilter \/ Finally

SpecFilter == InitFilter /\ [][NextFilter]_vars

TypeOK ==
  /\ pc \in {"call", "setup", "loop", "sleep_frame", "sleep_buffer", "final",
             "filter", "finally", "done"}
  /\ outcome \in {"running", "returned", "raised", "cancelled"}
  /\ faults_left \in 0..MaxFaults
  /\ answers_left \in 0..MaxAnswers
  /\ Len(frame_history) <= frame_history_length

----------------------------------------------------------------------------
(* Properties of the capture calls *)

Frames == log.frames
Energies == [i \in DOMAIN Frames |-> Frames[i].energy]

\* the readings the smoothing window holds after the i-th valid frame
WindowAt(i) ==
  SubSeq(Energies, IF i > frame_history_length THEN i - frame_history_length + 1 ELSE 1, i)

\* the smoothed average after the i-th valid frame is above continued_threshold
SmoothedAboveContinued(i) ==
  10 * Sum(WindowAt(i)) > continued_threshold_x10 * Len(WindowAt(i))

\* the loop was left by a manual stop
ManualEnd == end_reason \in {"ManualStopWithSpeech", "ManualStopWithoutSpeech", "ManualStop"}

\* the loop was left by an exception or by the caller's cancellation
Interrupted == end_reason \in {"Exception", "Cancelled"}

\* C1: in both capture calls, once start_listening has returned a stream,
\* stop_listening is called before the call returns or raises, whatever the
\* exit path (also a failure of the settings or of the recogniser's reset()
\* at session start).
C1_StreamAlwaysStopped ==
  (pc = "done" /\ log.stream) => log.stop_listening >= 1

\* C2: no exception escapes a capture call: whatever collaborator fails, the
\* call returns a transcript or None.
C2_NoExceptionEscapes ==
  outcome # "raised"

\* C3: when the caller cancels a capture suspended in the no-frame sleep or in
\* the speech_buffer_time pause, stop_listening has run by the time the
\* cancellation leaves the call.
C3_CancelRunsCleanup ==
  (pc = "done" /\ end_reason = "Cancelled") =>
    /\ log.stream
    /\ log.stop_listening = 1
    /\ ~audio_manager.listening

C3_Witness ==
  /\ pc = "done" /\ outcome = "cancelled"
  /\ log.stop_listening = 1
  /\ voice_started

\* no valid frame so far had an energy above energy_threshold
Quiet == \A i \in DOMAIN Frames : Frames[i].energy <= energy_threshold

\* C4: in timed capture without manual stop, when no frame's energy exceeds
\* energy_threshold, voice never starts, the loop goes on while the elapsed
\* time read at the top of the iteration is at most initial_timeout (4.0 s for
\* a follow-up, 8.0 s otherwise) and the call returns None on the iteration
\* that reads a later time, whatever frames and recogniser events arrive.
C4_InitialTimeout ==
  (mode = "vad" /\ Quiet) =>
    /\ ~voice_started
    /\ initial_timeout = (IF is_follow_up THEN 40 ELSE 80)
    /\ pc \in {"loop", "sleep_frame"} => now - overall_start_time <= initial_timeout
    /\ (end_reason # "none" /\ ~ManualEnd /\ ~Interrupted) =>
         /\ end_reason = "InitialTimeout"
         /\ now - overall_start_time > initial_timeout
         /\ log.get_final_text = 0
         /\ (pc = "done" /\ outcome = "returned") => result = None

C4_Witness ==
  /\ mode = "vad" /\ pc = "done" /\ outcome = "returned"
  /\ end_reason = "InitialTimeout"
  /\ result = None
  /\ Len(Frames) >= 2
  /\ \E i \in DOMAIN Frames : Frames[i].final

\* the valid frames processed since voice started
ActiveFrames == {i \in DOMAIN Frames : Frames[i].active}

\* the smoothed average stayed at or below continued_threshold on each of the
\* last n valid frames, all processed after voice start
TrailingSilent(n) ==
  /\ Len(Frames) >= n
  /\ \A i \in (Len(Frames) - n + 1)..Len(Frames) :
       Frames[i].active /\ ~SmoothedAboveContinued(i)

\* the frames processed after voice start are first above continued_threshold,
\* for at least min_speech_duration, and then zero, for at least
\* silence_duration of audio (silence_frames_needed frames)
SpeechThenSilence ==
  /\ voice_started
  /\ log.drop_time # Absent
  /\ log.drop_time - speech_start_time >= min_speech_duration
  /\ \E d \in ActiveFrames :
       /\ \A i \in ActiveFrames : i < d => 10 * Frames[i].energy > continued_threshold_x10
       /\ \A i \in ActiveFrames : i >= d => Frames[i].energy = 0
       /\ Len(Frames) - d + 1 >= silence_frames_needed

NoFinalSegment == \A i \in DOMAIN Frames : ~Frames[i].final

\* C5 as stated: without manual stop and recogniser final segment, a session
\* whose energy rises above energy_threshold, stays above continued_threshold
\* for min_speech_duration and then is near zero for silence_duration ends by
\* the silence rule.
C5_Original ==
  (mode = "vad" /\ pc = "done" /\ SpeechThenSilence /\ NoFinalSegment
     /\ ~ManualEnd /\ ~Interrupted)
  => end_reason = "SilenceTimeout"

\* C5, amended: the session ends by the silence rule exactly at the first
\* valid frame, processed after voice start, at which the smoothed average has
\* been at or below continued_threshold for silence_frames_needed consecutive
\* valid frames and the elapsed speech time is at least min_speech_duration;
\* it goes WaitingForVoice -> VoiceActive -> Ended(SilenceTimeout).
C5_SilenceRule ==
  mode = "vad" =>
    /\ end_reason = "SilenceTimeout" =>
         /\ voice_started
         /\ TrailingSilent(silence_frames_needed)
         /\ log.frame_time - speech_start_time >= min_speech_duration
         /\ log.frame_time - speech_start_time <= max_recording_time
    /\ (pc \in {"loop", "sleep_frame"} /\ voice_started /\ Frames # <<>>
          /\ Frames[Len(Frames)].active) =>
         ~(/\ TrailingSilent(silence_frames_needed)
           /\ log.frame_time - speech_start_time >= min_speech_duration)

C5_Witness ==
  /\ mode = "vad" /\ pc = "done" /\ outcome = "returned"
  /\ end_reason = "SilenceTimeout"
  /\ SpeechThenSilence
  /\ NoFinalSegment

\* every frame processed after voice start had an energy above continued_threshold
NoDip == \A i \in ActiveFrames : 10 * Frames[i].energy > continued_threshold_x10

\* at every frame processed after voice start the smoothed average was above
\* continued_threshold
NoSmoothedDip == \A i \in ActiveFrames : SmoothedAboveContinued(i)

\* C6 as stated: once voice has started it stays started and speech_start_time
\* is not assigned again, and while every frame after voice start has an
\* energy above continued_threshold, silence_frames_count is never incremented
\* and the session does not end with SilenceTimeout.
C6_Original ==
  [][ /\ voice_started => (voice_started' /\ speech_start_time' = speech_start_time)
      /\ (mode = "vad" /\ NoDip') =>
           (silence_frames_count' = 0 /\ end_reason' # "SilenceTimeout") ]_vars

\* C6, amended: the same with the smoothed 20-frame average in place of the
\* per-frame energy (and silence_frames_needed at least 1).
C6_Hysteresis ==
  [][ /\ voice_started => (voice_started' /\ speech_start_time' = speech_start_time)
      /\ (mode = "vad" /\ NoSmoothedDip' /\ silence_frames_needed >= 1) =>
           (silence_frames_count' = 0 /\ end_reason' # "SilenceTimeout") ]_vars

C6_Witness ==
  /\ mode = "vad" /\ voice_started
  /\ NoSmoothedDip
  /\ silence_frames_count = 0
  /\ \E i \in ActiveFrames : Frames[i].energy < energy_threshold
  /\ Cardinality(ActiveFrames) >= 2

\* C7: a manual stop before voice start or at a speech duration below
\* min_speech_duration ends the timed session without a speech_buffer_time
\* pause, discards what the recogniser has accumulated, and the call returns
\* None whatever the recogniser had heard.
C7_ManualStopWithoutSpeech ==
  (mode = "vad" /\ end_reason = "ManualStopWithoutSpeech") =>
    /\ ~voice_started \/ now - speech_start_time <= min_speech_duration
    /\ log.buffer_sleep = 0
    /\ log.reset = 2
    /\ (pc = "done" /\ outcome = "returned") => result = None

\* C8: a manual stop observed at a speech duration greater than or equal to
\* min_speech_duration ends the timed session as ManualStopWithSpeech: one
\* speech_buffer_time pause, then get_final_text once, its result returned
\* through the acceptance filter.
C8_ManualStopWithSpeech ==
  mode = "vad" =>
    /\ (end_reason = "ManualStopWithoutSpeech" /\ voice_started) =>
         now - speech_start_time < min_speech_duration
    /\ (end_reason = "ManualStopWithSpeech" /\ pc \in {"final", "finally", "done"}) =>
         log.buffer_sleep = 1
    /\ (end_reason = "ManualStopWithSpeech" /\ pc = "done" /\ outcome = "returned") =>
         /\ log.get_final_text = 1
         /\ result = VadFilter(log.final_text)

----------------------------------------------------------------------------
(* Push-to-talk sessions alone, with a clock that keeps advancing *)

InitPtt == Init /\ mode = "ptt"

NextPtt ==
  \/ Begin
  \/ Setup
  \/ PttManualStop
  \/ PttMaxTime
  \/ PttNoFrame
  \/ PttFrame
  \/ LoopFault
  \/ SleepFrameWake
  \/ Cancel
  \/ Finalize
  \/ Finally
  \/ ConnectionClosed

\* a loop step at which time.monotonic() returns a later time than before
ClockAdvances == pc \in {"loop", "sleep_frame"} /\ NextPtt /\ now' > now

\* get_final_text() comes back: its wait for the final result is bounded
GetFinalTextReturns == pc = "final" /\ pc' = "finally"

\* the coroutine keeps being scheduled, get_final_text() returns, and the
\* clock read by the loop keeps advancing
SpecPtt ==
  /\ InitPtt /\ [][NextPtt]_vars
  /\ WF_vars(pc # "final" /\ NextPtt)
  /\ WF_pc(GetFinalTextReturns)
  /\ SF_vars(ClockAdvances)

PttLoopLeftOnlyByStopOrCeiling ==
  mode = "ptt" =>
    /\ pc # "sleep_buffer" /\ log.buffer_sleep = 0
    /\ ~voice_started /\ silence_frames_count = 0
    /\ pc \in {"loop", "sleep_frame"} =>
         (end_reason = "none" /\ now - start_time <= ptt_max_recording_time)
    /\ (pc \in {"final", "finally"} \/ log.stop_listening > 0) =>
         end_reason \in {"ManualStop", "MaxDuration", "Exception", "Cancelled"}
    /\ end_reason = "MaxDuration" => now - start_time > ptt_max_recording_time

\* C9: push-to-talk leaves its loop only on a manual stop, when the elapsed
\* time exceeds the 60 s ceiling, or on an exception; frames and recogniser
\* final segments never end it, a manual stop ends it at once without a
\* speech_buffer_time pause, and with an advancing clock the call terminates.
C9_PushToTalkEnds ==
  /\ []PttLoopLeftOnlyByStopOrCeiling
  /\ <>(pc = "done")

C9_Witness ==
  /\ mode = "ptt" /\ pc = "done" /\ outcome = "returned"
  /\ end_reason = "MaxDuration"
  /\ log.finals
  /\ now - start_time > ptt_max_recording_time

\* C10: push-to-talk returns the trimmed final text when it is non-empty and
\* its lowercase form is not "the", and None otherwise; the length and word
\* rules of timed capture are not applied: "a" is returned by push-to-talk
\* and rejected by timed capture.
C10_PttFilterOnlyNoiseRule ==
  pc \in {"finally", "done"} =>
    LET trimmed == Strip(log.final_text) IN
    /\ mode = "ptt" =>
         pending.value = (IF trimmed # <<>> /\ Lower(trimmed) # TheText
                            THEN Some(trimmed) ELSE None)
    /\ (mode = "vad" /\ trimmed = TxtA) => pending.value = None
    /\ pc = "done" => (outcome = "returned" /\ result = pending.value)

C10_Witness ==
  /\ mode = "ptt" /\ pc = "done"
  /\ log.final_text = TxtA
  /\ result = Some(TxtA)

----------------------------------------------------------------------------
(* Timed capture of recordings that hold frames of the wrong size *)

VadScripts ==
  { <<Frame(12), WrongSizeFrame, Frame(7), WrongSizeFrame, Frame(0), Frame(0)>>,
    <<WrongSizeFrame, Frame(12), WrongSizeFrame>> }

InitVadScript ==
  /\ mode = "vad"
  /\ is_follow_up \in BOOLEAN
  /\ speech_enabled = TRUE
  /\ audio_manager = [sample_rate |-> 16000, frame_length |-> 8000, listening |-> FALSE]
  /\ vosk = [connected |-> TRUE, complete_text |-> <<>>, partial_text |-> <<>>,
             response_queue |-> <<>>, wire |-> <<>>, srv_heard |-> FALSE]
  /\ pc = "call"
  /\ now = 0
  /\ vad_config \in VadConfigs
  /\ overall_start_time = 0 /\ start_time = 0 /\ speech_start_time = 0
  /\ voice_started = FALSE /\ silence_frames_count = 0 /\ frame_history = <<>>
  /\ pending = [kind |-> "none", value |-> None]
  /\ outcome = "running"
  /\ result = None
  /\ mic \in {[free |-> 0, script |-> s] : s \in VadScripts}
  /\ \E budget \in {<<0, 0>>, <<MaxAnswers, 0>>, <<0, MaxFaults>>} :
       answers_left = budget[1] /\ faults_left = budget[2]
  /\ end_reason = "none"
  /\ log = NoLog

NextVad ==
  \/ Begin
  \/ Setup
  \/ VadManualStop
  \/ VadInitialTimeout
  \/ VadMaxDuration
  \/ VadNoFrame
  \/ VadBadFrame
  \/ VadFrame
  \/ LoopFault
  \/ SleepFrameWake
  \/ SleepBufferWake
  \/ Cancel
  \/ Finalize
  \/ Finally
  \/ ConnectionClosed

SpecVadScript == InitVadScript /\ [][NextVad]_vars

\* this step reads a frame of the wrong size from the recording
ReadsWrongSizeFrame ==
  /\ mode = "vad" /\ pc = "loop"
  /\ mic.script # <<>> /\ ~Head(mic.script).size_ok
  /\ mic'.script = Tail(mic.script)

\* C11: in timed capture an iteration that reads a frame whose length is not
\* frame_length * 2 leaves frame_history, silence_frames_count, voice_started,
\* speech_start_time and overall_start_time as they were and does not pass
\* the frame to the recogniser's process_frame.
C11_WrongSizeFrameDiscarded ==
  [][ ReadsWrongSizeFrame =>
        /\ UNCHANGED <<frame_history, silence_frames_count, voice_started,
                       speech_start_time, overall_start_time>>
        /\ vosk' = vosk
        /\ log'.frames = log.frames
        /\ pc' = "loop" ]_vars

\* a frame of the wrong size was read after voice had started on one reading
C11_Witness ==
  /\ mode = "vad" /\ pc = "loop"
  /\ voice_started /\ frame_history = <<12>>
  /\ mic.script = <<Frame(7), WrongSizeFrame, Frame(0), Frame(0)>>

\* the text the timed-capture rules give for a raw final text: none when the
\* trimmed text is empty, is "the" in any letter case, is shorter than 2, or
\* has no words; the trimmed text otherwise
Accept(raw) ==
  LET trimmed == Strip(raw)
  IN IF \/ trimmed = <<>>
        \/ Lower(trimmed) = TheText
        \/ Len(trimmed) < 2
        \/ NumWords(trimmed) = 0
       THEN None ELSE Some(trimmed)

\* C12: the timed-capture filter returns the trimmed text or None exactly as
\* the rules say; "the", "", and "a" give None and "ok go" gives "ok go";
\* an accepted text has no leading or trailing whitespace.
C12_VadFilterRules ==
  (mode = "vad" /\ pc \in {"finally", "done"}) =>
    /\ pending.value = Accept(log.final_text)
    /\ log.final_text \in {TheText, TxtThe, <<>>, TxtA} => pending.value = None
    /\ log.final_text = TxtOkGo => pending.value = Some(TxtOkGo)
    /\ pending.value.ok =>
         /\ pending.value.text # <<>>
         /\ ~IsSpace(Head(pending.value.text))
         /\ ~IsSpace(pending.value.text[Len(pending.value.text)])
    /\ pc = "done" => (outcome = "returned" /\ result = pending.value)

C12_Witness ==
  /\ mode = "vad" /\ pc = "done"
  /\ log.final_text = <<" ">> \o TxtOkGo
  /\ result = Some(TxtOkGo)

\* C13: the timed-capture filter is idempotent: applied to an accepted result
\* it gives that result again, and applied to the accepted text, or to the
\* raw text when it was rejected, it gives what it gave for the raw text.
C13_VadFilterIdempotent ==
  (mode = "vad" /\ pc \in {"finally", "done"}) =>
    LET x == log.final_text
        accepted == pending.value
    IN /\ accepted = VadFilter(x)
       /\ accepted.ok => VadFilter(accepted.text) = accepted
       /\ VadFilter(IF accepted.ok THEN accepted.text ELSE x) = accepted

C13_Witness ==
  /\ mode = "vad" /\ pc = "finally"
  /\ log.final_text = <<" ", "a", "t">>
  /\ pending.value = Some(<<"a", "t">>)
  /\ VadFilter(<<"a", "t">>) = Some(<<"a", "t">>)

----------------------------------------------------------------------------
(* The callers of the capture calls: PiMCPClient.run and its main loop     *)
(* tasks (run_v2.py).  One SpeechProcessor, audio manager and recogniser   *)
(* are shared by every main loop task that run() creates.                  *)
(*                                                                         *)
(* Here pc, mode, pending and end_reason are functions of the task:        *)
(*   pc[t]      "unborn"  run() has not created the task                   *)
(*              "wake"    run_main_loop awaits a wake event                *)
(*              "begin"   a capture call awaits the display update,        *)
(*                        initialize_input or start_listening              *)
(*              "setup"   start_listening returned a stream                *)
(*              "loop"    the call runs a loop iteration                   *)
(*              "sleep"   the call awaits asyncio.sleep                    *)
(*              "finally" the call awaits stop_listening                   *)
(*              "ended"   the task is done                                 *)
(*   mode[t]    the capture call the task makes                            *)
(*   pending[t] main_loop_task.cancel() was called and not yet delivered   *)
(*   end_reason[t] "Cancelled" while a cancellation unwinds the call       *)
(* log holds who last reset the recogniser and who set the shared          *)
(* last_partial_print_time attribute (0: the attribute is absent).         *)

\* main loop tasks run() creates in its lifetime
MaxTasks == 2

Tasks == 1..MaxTasks

InitCallers ==
  /\ pc = [t \in Tasks |-> "unborn"]
  /\ mode = [t \in Tasks |-> "none"]
  /\ pending = [t \in Tasks |-> FALSE]
  /\ end_reason = [t \in Tasks |-> "none"]
  /\ audio_manager = [sample_rate |-> 16000, frame_length |-> 8000, listening |-> FALSE]
  /\ log = [reset_by |-> 0, last_partial_print_time |-> 0]
  /\ is_follow_up = FALSE /\ speech_enabled = TRUE
  /\ vosk = [connected |-> TRUE, complete_text |-> <<>>, partial_text |-> <<>>,
             response_queue |-> <<>>, wire |-> <<>>, srv_heard |-> FALSE]
  /\ now = 0
  /\ vad_config \in VadConfigs
  /\ overall_start_time = 0 /\ start_time = 0 /\ speech_start_time = 0
  /\ voice_started = FALSE /\ silence_frames_count = 0 /\ frame_history = <<>>
  /\ outcome = "running"
  /\ result = None
  /\ mic = [free |-> 0, script |-> <<>>]
  /\ answers_left = 0
  /\ faults_left = 0

CallersFrame ==
  UNCHANGED <<is_follow_up, speech_enabled, vosk, now, vad_config, session,
              outcome, result, mic, answers_left, faults_left>>

\* the task is through with everything it was doing
Finished(t) == pc[t] \in {"unborn", "ended"}

\* a new main loop task is made while an earlier one may still be unwinding
MayCreateMainLoopUnawaited(t) == pc[t] = "unborn"

\* run_v2.py 362-375 and 435-448: run() creates a main loop task only after
\* it has cancelled and awaited the one before
MayCreateMainLoop(t) ==
  pc[t] = "unborn" /\ \A u \in Tasks : Finished(u)

\* asyncio.create_task(self.run_main_loop())
CreateMainLoop ==
  \E t \in Tasks :
    /\ MayCreateMainLoop(t)
    /\ pc' = [pc EXCEPT ![t] = "wake"]
    /\ UNCHANGED <<mode, pending, end_reason, audio_manager, log>>
    /\ CallersFrame

\* main_loop_task.cancel()
CancelMainLoop ==
  \E t \in Tasks :
    /\ ~Finished(t) /\ ~pending[t]
    /\ pending' = [pending EXCEPT ![t] = TRUE]
    /\ UNCHANGED <<pc, mode, end_reason, audio_manager, log>>
    /\ CallersFrame

\* the cancellation reaches the task at the await it is suspended in
DeliverCancel ==
  \E t \in Tasks :
    /\ pending[t] /\ pc[t] \in {"wake", "begin", "sleep"}
    /\ pending' = [pending EXCEPT ![t] = FALSE]
    /\ IF pc[t] = "sleep"
         THEN /\ pc' = [pc EXCEPT ![t] = "finally"]
              /\ end_reason' = [end_reason EXCEPT ![t] = "Cancelled"]
         ELSE /\ pc' = [pc EXCEPT ![t] = "ended"]
              /\ UNCHANGED end_reason
    /\ UNCHANGED <<mode, audio_manager, log>>
    /\ CallersFrame

\* run_v2.py 263-269: the main loop calls one of the capture calls
CallCapture ==
  \E t \in Tasks, m \in {"vad", "ptt"} :
    /\ pc[t] = "wake"
    /\ pc' = [pc EXCEPT ![t] = "begin"]
    /\ mode' = [mode EXCEPT ![t] = m]
    /\ UNCHANGED <<pending, end_reason, audio_manager, log>>
    /\ CallersFrame

\* speech_processor.py 43-58: the call returns None, raises, or has a stream
StartListening ==
  \E t \in Tasks, stream \in BOOLEAN :
    /\ pc[t] = "begin"
    /\ pc' = [pc EXCEPT ![t] = IF stream THEN "setup" ELSE "wake"]
    /\ audio_manager' = [audio_manager EXCEPT !.listening = @ \/ stream]
    /\ UNCHANGED <<mode, pending, end_reason, log>>
    /\ CallersFrame

\* speech_processor.py 60-95: transcriber.reset(); when it raises, the call
\* leaves with the stream open and run_main_loop (326) goes on
ResetRecogniser ==
  \E t \in Tasks, raised \in BOOLEAN :
    /\ pc[t] = "setup"
    /\ pc' = [pc EXCEPT ![t] = IF raised THEN "wake" ELSE "loop"]
    /\ log' = [log EXCEPT !.reset_by = t]
    /\ UNCHANGED <<mode, pending, end_reason, audio_manager>>
    /\ CallersFrame

\* one loop iteration: it may set last_partial_print_time, and goes on,
\* sleeps, or leaves the loop
LoopIteration ==
  \E t \in Tasks, touches \in BOOLEAN, next \in {"loop", "sleep", "finally"} :
    /\ pc[t] = "loop"
    /\ pc' = [pc EXCEPT ![t] = next]
    /\ log' = [log EXCEPT !.last_partial_print_time = IF touches THEN t ELSE @]
    /\ UNCHANGED <<mode, pending, end_reason, audio_manager>>
    /\ CallersFrame

\* asyncio.sleep returns
SleepReturns ==
  \E t \in Tasks :
    /\ pc[t] = "sleep" /\ ~pending[t]
    /\ pc' = [pc EXCEPT ![t] = "loop"]
    /\ UNCHANGED <<mode, pending, end_reason, audio_manager, log>>
    /\ CallersFrame

\* speech_processor.py 236-239: stop_listening, del last_partial_print_time
StopListening ==
  \E t \in Tasks :
    /\ pc[t] = "finally"
    /\ audio_manager' = [audio_manager EXCEPT !.listening = FALSE]
    /\ log' = [log EXCEPT !.last_partial_print_time = 0]
    /\ pc' = [pc EXCEPT ![t] = IF end_reason[t] = "Cancelled" THEN "ended" ELSE "wake"]
    /\ end_reason' = [end_reason EXCEPT ![t] = "none"]
    /\ UNCHANGED <<mode, pending>>
    /\ CallersFrame

NextCallers ==
  \/ CreateMainLoop
  \/ CancelMainLoop
  \/ DeliverCancel
  \/ CallCapture
  \/ StartListening
  \/ ResetRecogniser
  \/ LoopIteration
  \/ SleepReturns
  \/ StopListening

SpecCallers == InitCallers /\ [][NextCallers]_vars

\* the task's capture call is between its start_listening and its stop_listening
InSession(t) == pc[t] \in {"setup", "loop", "sleep", "finally"}

\* this step of task t starts listening, resets the recogniser or sets the
\* shared timestamp
TouchesShared(t) ==
  \/ pc[t] = "begin" /\ pc'[t] = "setup"
  \/ pc[t] = "setup" /\ log'.reset_by = t /\ pc'[t] # "setup"
  \/ pc[t] = "loop" /\ log'.last_partial_print_time = t

C15_NotReadyReturnsNone ==
  ~speech_enabled =>
    /\ pc \in {"call", "done"}
    /\ log.initialize_input = 0
    /\ log.start_listening = 0
    /\ log.reset = 0
    /\ log.stop_listening = 0
    /\ ~audio_manager.listening
    /\ pc = "done" => \/ outcome = "returned" /\ result = None
                      \/ outcome = "raised" /\ faults_left < MaxFaults

C15_Witness ==
  /\ ~speech_enabled
  /\ pc = "done"
  /\ outcome = "returned"
  /\ result = None
  /\ mode = "ptt"

(***************************************************************************)
(* A failing process_frame call                                            *)
(***************************************************************************)

\* a loop iteration that took a frame from the source and whose
\* process_frame call failed
ProcessFrameFails == pc = "loop" /\ mic' # mic /\ faults_left' < faults_left

\* C16: a process_frame call that fails does not end the session.  In timed
\* capture the frame is logged as carrying no final segment, its energy
\* enters the smoothing window, voice start and the silence count are
\* computed from it as from any other frame, and the loop is left only when
\* the silence rule holds; in push-to-talk the loop goes on.  The recogniser
\* is left as it was and the call has not come back.
C16_ProcessFrameFaultKeepsSession ==
  [][ProcessFrameFails =>
       /\ outcome' = "running"
       /\ vosk' = vosk
       /\ pending' = pending
       /\ IF mode = "ptt" THEN pc' = "loop" /\ end_reason' = end_reason
          ELSE
            LET last == log'.frames[Len(log'.frames)]
                history == PushHistory(frame_history, last.energy)
                silence == IF AvgAboveContinued(history) THEN 0
                           ELSE silence_frames_count + 1
            IN
            /\ Len(log'.frames) = Len(log.frames) + 1
            /\ ~last.final
            /\ frame_history' = history
            /\ IF ~voice_started
                 THEN /\ voice_started' = AvgAboveStart(history)
                      /\ voice_started' =>
                           speech_start_time' = now' /\ silence_frames_count' = 0
                      /\ pc' = "loop" /\ end_reason' = end_reason
                 ELSE /\ voice_started'
                      /\ silence_frames_count' = silence
                      /\ IF SilenceEnds(silence, now' - speech_start_time)
                           THEN pc' = "sleep_buffer" /\ end_reason' = "SilenceTimeout"
                           ELSE pc' = "loop" /\ end_reason' = end_reason
     ]_vars

\* a timed session still in its loop, with voice started by a frame whose
\* process_frame call failed: the recogniser never heard the frame
C16_Witness ==
  /\ mode = "vad"
  /\ pc = "loop"
  /\ Len(log.frames) = 1
  /\ voice_started
  /\ vosk.connected
  /\ ~vosk.srv_heard
  /\ faults_left < MaxFaults
  /\ log.reset = 1
  /\ outcome = "running"

(***************************************************************************)
(* The minimum speech duration                                             *)
(***************************************************************************)

\* C19: a timed session that ended by SilenceTimeout or by RecognizerFinal
\* had voice started, and the frame that ended it was read at least
\* min_speech_duration after the speech start: before that no silence run
\* and no final segment of the recogniser ends the session.
C19_EndsOnlyAfterMinSpeech ==
  end_reason \in {"SilenceTimeout", "RecognizerFinal"} =>
    /\ mode = "vad"
    /\ voice_started
    /\ log.frame_time - speech_start_time >= min_speech_duration

\* a session ended by silence after a silence run that was already long
\* enough one frame earlier, when the speech was still too short
C19_Witness ==
  /\ end_reason = "SilenceTimeout"
  /\ silence_frames_count > silence_frames_needed
  /\ log.frame_time - speech_start_time >= min_speech_duration

(***************************************************************************)
(* The ceiling on the recording time                                       *)
(***************************************************************************)

\* C20: in timed capture, once voice has started, no loop iteration that
\* reads the clock more than max_recording_time after the speech start
\* goes on with the loop or ends the session by silence or by a final
\* segment: without a manual stop it ends the session as MaxDuration,
\* whatever the frames and the recogniser did.  A session ended as
\* MaxDuration read the clock past the ceiling, made no speech_buffer_time
\* pause, called get_final_text once, and what it returns is that text as
\* the acceptance filter leaves it.
C20_MaxDurationCeiling ==
  mode = "vad" =>
    /\ (pc \in {"loop", "sleep_frame"} /\ voice_started) =>
         now - speech_start_time <= max_recording_time
    /\ end_reason \in {"SilenceTimeout", "RecognizerFinal"} =>
         log.frame_time - speech_start_time <= max_recording_time
    /\ end_reason = "MaxDuration" =>
         /\ voice_started
         /\ now - speech_start_time > max_recording_time
         /\ log.buffer_sleep = 0
         /\ pc \in {"final", "finally", "done"}
         /\ pc # "final" => log.get_final_text = 1
         /\ (pc = "done" /\ outcome = "returned") =>
              result = VadFilter(log.final_text)

\* a session ended by the ceiling while the smoothed energy was still
\* above the threshold, which returned the transcript
C20_Witness ==
  /\ mode = "vad"
  /\ end_reason = "MaxDuration"
  /\ pc = "done"
  /\ outcome = "returned"
  /\ result # None
  /\ silence_frames_count = 0
  /\ log.buffer_sleep = 0

----------------------------------------------------------------------------
(* The recogniser on its own: one object of either implementation,        *)
(* VoskTranscriber over a local KaldiRecognizer (vosk_transcriber.py) or   *)
(* VoskWebSocketClient over a server (vosk_websocket_client.py), driven    *)
(* by reset, process_frame and get_final_text in any order a session can   *)
(* call them.                                                              *)
(*                                                                         *)
(* Here mode is the implementation, vosk the object (for VoskTranscriber   *)
(* srv_heard says that the KaldiRecognizer holds audio, and no message is  *)
(* ever in flight), pc is "ready" after reset and "flushed" after          *)
(* get_final_text, result is the text get_final_text returned, mic.free    *)
(* the process_frame calls left, answers_left the non-empty results the    *)
(* engine may still produce, and log records what the engine produced:     *)
(*   segments    the non-empty finalized segments produced from audio      *)
(*               sent since the last reset, the final flush included       *)
(*   stale       responses produced before the last reset that are still   *)
(*               in the socket or in response_queue (they are the oldest)  *)
(*   stale_used  a call consumed such a response                           *)
(*   resets      reset() calls made                                        *)
(*   fresh       no call was made since the last reset (or construction)   *)

\* reset() calls in one run
MaxResets == 2

Implementations == {"VoskTranscriber", "VoskWebSocketClient"}

\* VoskTranscriber.reset: a new KaldiRecognizer
VoskTranscriber_reset(v) ==
  Ret([v EXCEPT !.complete_text = <<>>, !.partial_text = <<>>,
                !.srv_heard = FALSE],
      FALSE, FALSE, <<>>)

\* self.complete_text + " " + chunk, stripped, or the chunk alone
Accumulate(complete_text, chunk) ==
  IF complete_text # <<>> THEN Strip(JoinSpace(complete_text, chunk)) ELSE chunk

\* VoskTranscriber.process_frame: accepted is what AcceptWaveform returns,
\* text the text of Result() or of PartialResult()
VoskTranscriber_process_frame(v, accepted, text) ==
  LET v1 == [v EXCEPT !.srv_heard = TRUE] IN
  IF accepted THEN
    LET text_chunk == Strip(text) IN
    IF text_chunk # <<>> THEN
      LET w == [v1 EXCEPT !.complete_text = Accumulate(v.complete_text, text_chunk)]
      IN Ret(w, FALSE, TRUE, w.complete_text)
    ELSE Ret(v1, FALSE, TRUE, v1.complete_text)
  ELSE
    LET w == [v1 EXCEPT !.partial_text = Strip(text)]
    IN Ret(w, FALSE, FALSE, Accumulate(w.complete_text, w.partial_text))

\* VoskTranscriber.get_final_text: text is the text of FinalResult()
VoskTranscriber_get_final_text(v, text) ==
  LET final_vosk_text_chunk == Strip(text)
      v1 == [v EXCEPT !.srv_heard = FALSE]
      w == IF final_vosk_text_chunk # <<>>
             THEN [v1 EXCEPT !.complete_text =
                               Accumulate(v.complete_text, final_vosk_text_chunk)]
             ELSE v1
  IN Ret(w, FALSE, FALSE, Strip(w.complete_text))

\* the non-empty finalized segments among the messages of an answer
SegmentsOf(answer) ==
  SelectSeq([i \in DOMAIN answer |->
               IF answer[i].type \in {"final", "final_result"}
                 THEN Strip(answer[i].text) ELSE <<>>],
            LAMBDA t : t # <<>>)

\* responses in the socket or in response_queue
InFlight(v) == Len(v.response_queue) + Len(v.wire)

InitRecogniser ==
  /\ mode \in Implementations
  /\ vosk = [connected |-> TRUE, complete_text |-> <<>>, partial_text |-> <<>>,
             response_queue |-> <<>>, wire |-> <<>>, srv_heard |-> FALSE]
  /\ pc = "ready"
  /\ result = <<>>
  /\ mic = [free |-> MaxFrames, script |-> <<>>]
  /\ answers_left = MaxAnswers
  /\ log = [segments |-> <<>>, stale |-> 0, stale_used |-> FALSE, resets |-> 0,
           fresh |-> TRUE]
  /\ is_follow_up = FALSE /\ speech_enabled = TRUE
  /\ audio_manager = [sample_rate |-> 16000, frame_length |-> 8000, listening |-> TRUE]
  /\ now = 0
  /\ vad_config = CHOOSE c \in VadConfigs : c.continued_threshold = Absent
  /\ overall_start_time = 0 /\ start_time = 0 /\ speech_start_time = 0
  /\ voice_started = FALSE /\ silence_frames_count = 0 /\ frame_history = <<>>
  /\ pending = [kind |-> "none", value |-> None]
  /\ outcome = "running"
  /\ faults_left = 0
  /\ end_reason = "none"

RecogniserFrame ==
  UNCHANGED <<mode, is_follow_up, speech_enabled, audio_manager, now, vad_config,
              session, pending, outcome, faults_left, end_reason>>

\* the record of what the engine produced, after a call that added the
\* segments segs and took the recogniser from v to w with n new responses
Produced(segs, v, w, n) ==
  LET consumed == InFlight(v) + n - InFlight(w) IN
  [log EXCEPT !.segments = @ \o segs,
              !.stale = IF consumed >= @ THEN 0 ELSE @ - consumed,
              !.stale_used = @ \/ (consumed > 0 /\ log.stale > 0),
              !.fresh = FALSE]

\* transcriber.reset()
Reset ==
  /\ log.resets < MaxResets
  /\ \E k \in 0..Len(vosk.wire) :
       LET r == IF mode = "VoskTranscriber" THEN VoskTranscriber_reset(vosk)
                ELSE reset(vosk, TRUE, TRUE, k)
       IN /\ vosk' = r.v
          /\ log' = [log EXCEPT !.segments = <<>>, !.stale = InFlight(r.v),
                                !.resets = @ + 1, !.fresh = TRUE]
  /\ pc' = "ready"
  /\ UNCHANGED <<result, mic, answers_left>>
  /\ RecogniserFrame

\* transcriber.process_frame(pcm_bytes)
ProcessFrame ==
  /\ pc = "ready"
  /\ mic.free > 0
  /\ mic' = [mic EXCEPT !.free = @ - 1]
  /\ \/ /\ mode = "VoskTranscriber"
        /\ \E accepted \in BOOLEAN,
              text \in (IF answers_left > 0 THEN ServerTexts ELSE {<<>>}) :
             LET r == VoskTranscriber_process_frame(vosk, accepted, text) IN
             /\ vosk' = r.v
             /\ answers_left' = IF text # <<>> THEN answers_left - 1 ELSE answers_left
             /\ log' = Produced(IF accepted /\ Strip(text) # <<>>
                                  THEN <<Strip(text)>> ELSE <<>>,
                                vosk, r.v, 0)
     \/ /\ mode = "VoskWebSocketClient"
        /\ \E answer \in AnswersAvailable, k \in 0..(Len(vosk.wire) + 1) :
             LET r == process_frame(vosk, TRUE, answer, k) IN
             /\ k <= Len(vosk.wire) + Len(answer)
             /\ vosk' = r.v
             /\ answers_left' = IF answer # <<>> THEN answers_left - 1
                                ELSE answers_left
             /\ log' = Produced(SegmentsOf(answer), vosk, r.v, Len(answer))
  /\ UNCHANGED <<pc, result>>
  /\ RecogniserFrame

\* transcriber.get_final_text()
GetFinalText ==
  /\ pc = "ready"
  /\ pc' = "flushed"
  /\ \/ /\ mode = "VoskTranscriber"
        /\ \E text \in FinalResultTexts(vosk.srv_heard) :
             LET r == VoskTranscriber_get_final_text(vosk, text) IN
             /\ vosk' = r.v
             /\ result' = r.text
             /\ log' = Produced(IF Strip(text) # <<>> THEN <<Strip(text)>> ELSE <<>>,
                                vosk, r.v, 0)
     \/ /\ mode = "VoskWebSocketClient"
        /\ \E final_text \in FinalResultTexts(vosk.srv_heard),
              k \in 0..(Len(vosk.wire) + 1) :
             LET r == get_final_text(vosk, TRUE, final_text, k) IN
             /\ vosk' = r.v
             /\ result' = r.text
             /\ log' = Produced(SegmentsOf(<<Msg("final_result", final_text)>>),
                                vosk, r.v, 1)
  /\ UNCHANGED <<mic, answers_left>>
  /\ RecogniserFrame

NextRecogniser == Reset \/ ProcessFrame \/ GetFinalText

SpecRecogniser == InitRecogniser /\ [][NextRecogniser]_vars

\* the finalized segments joined by single spaces
RECURSIVE JoinSegments(_)
JoinSegments(segs) ==
  IF segs = <<>> THEN <<>>
  ELSE IF Len(segs) = 1 THEN segs[1]
  ELSE JoinSpace(JoinSegments(SubSeq(segs, 1, Len(segs) - 1)), segs[Len(segs)])

\* C17: for either implementation the text get_final_text returns is the
\* space-joined concatenation, in order, of the non-empty finalized
\* segments produced since the last reset, the final flush included: no
\* partial hypothesis is in it and no segment is dropped or replaced.
\* Stated for the calls that are clear of everything else: every response
\* was produced after the last reset and has been received.
C17_FinalTextJoinsFinalizedSegments ==
  (pc = "flushed" /\ ~log.stale_used /\ InFlight(vosk) = 0) =>
    result = JoinSegments(log.segments)

\* C18: after reset() the recogniser holds nothing from before it: its texts
\* are empty when reset returns, and no response produced before the reset
\* is consumed by a later process_frame or get_final_text.
C18_ResetDiscardsEarlierState ==
  /\ log.fresh => vosk.complete_text = <<>> /\ vosk.partial_text = <<>>
  /\ ~log.stale_used

(***************************************************************************)
(* The speech_buffer_time pause                                            *)
(***************************************************************************)

PausingEnds == {"SilenceTimeout", "ManualStopWithSpeech"}

\* C21: in timed capture the speech_buffer_time pause belongs to the end
\* reasons SilenceTimeout and ManualStopWithSpeech and to no other: a
\* session with one of these reasons is in the pause before get_final_text
\* is called and has completed it exactly once when get_final_text has been
\* called; a session with any other end reason (RecognizerFinal and
\* MaxDuration among them) never pauses.
C21_BufferPause ==
  mode = "vad" =>
    /\ log.buffer_sleep <= 1
    /\ pc = "sleep_buffer" =>
         end_reason \in PausingEnds /\ log.buffer_sleep = 0 /\ log.get_final_text = 0
    /\ end_reason \in PausingEnds =>
         /\ pc \in {"sleep_buffer", "final", "finally", "done"}
         /\ pc # "sleep_buffer" => log.buffer_sleep = 1
         /\ pc \in {"finally", "done"} => log.get_final_text = 1
    /\ end_reason \in {"none", "RecognizerFinal", "MaxDuration", "InitialTimeout",
                       "ManualStopWithoutSpeech"} =>
         log.buffer_sleep = 0
    /\ log.get_final_text <= 1

\* a session ended by a manual stop with speech that paused once and then
\* returned from get_final_text
C21_Witness ==
  /\ mode = "vad"
  /\ end_reason = "ManualStopWithSpeech"
  /\ pc = "done"
  /\ outcome = "returned"
  /\ log.buffer_sleep = 1
  /\ log.get_final_text = 1

(***************************************************************************)
(* Ends without a transcript                                               *)
(***************************************************************************)

\* C22: a timed session that ended as ManualStopWithoutSpeech or as
\* InitialTimeout has called the recogniser's reset() a second time, after
\* the one at session start, and the call returns None.
C22_EndsWithoutTranscript ==
  (mode = "vad" /\ pc = "done" /\ outcome = "returned"
     /\ end_reason \in {"ManualStopWithoutSpeech", "InitialTimeout"}) =>
    /\ log.reset = 2
    /\ result = None

(***************************************************************************)
(* The order of the end rules                                              *)
(***************************************************************************)

LastFrame == log.frames[Len(log.frames)]

\* C23: the rules of a timed-capture iteration apply in the order manual
\* stop, initial timeout, max duration, silence, final segment.  A manual
\* stop can be taken at every iteration, also at a clock reading at which a
\* timeout has elapsed; the initial timeout ends only sessions without
\* voice and the max duration only sessions with voice; a frame is
\* processed only at a clock reading at which neither timeout has elapsed;
\* a session ended by silence met the silence rule on its last frame
\* whatever the recogniser reported, and a session ended by a final segment
\* did not meet the silence rule on that frame.
C23_RuleOrder ==
  mode = "vad" =>
    /\ pc = "loop" => ENABLED (VadManualStop /\ now' = now + Step)
    /\ end_reason = "InitialTimeout" =>
         ~voice_started /\ now - overall_start_time > initial_timeout
    /\ end_reason = "MaxDuration" =>
         voice_started /\ now - speech_start_time > max_recording_time
    /\ log.frames # <<>> =>
         /\ LastFrame.active =>
              log.frame_time - speech_start_time <= max_recording_time
         /\ ~LastFrame.active =>
              log.frame_time - overall_start_time <= initial_timeout
    /\ end_reason = "SilenceTimeout" =>
         SilenceEnds(silence_frames_count, log.frame_time - speech_start_time)
    /\ end_reason = "RecognizerFinal" =>
         /\ LastFrame.final
         /\ ~SilenceEnds(silence_frames_count, log.frame_time - speech_start_time)

\* a session ended as SilenceTimeout by a frame on which the recogniser
\* also reported a final segment
C23_Witness ==
  /\ mode = "vad"
  /\ end_reason = "SilenceTimeout"
  /\ log.frames # <<>>
  /\ LastFrame.final
  /\ LastFrame.active
  /\ FinalEnds(TRUE, log.frame_time - speech_start_time)

(***************************************************************************)
(* Termination of timed capture                                            *)
(***************************************************************************)

\* a loop iteration without manual stop and without a failing collaborator
VadIteration ==
  VadInitialTimeout \/ VadMaxDuration \/ VadNoFrame \/ VadBadFrame \/ VadFrame

\* such an iteration at which time.monotonic() returns a later time than
\* at the iteration before
VadClockAdvances == pc = "loop" /\ VadIteration /\ now' > now

\* the coroutine keeps being scheduled, get_final_text() returns, and the
\* clock read by the loop keeps advancing
SpecVadLive ==
  /\ InitVadScript /\ [][NextVad]_vars
  /\ WF_vars(pc # "final" /\ NextVad)
  /\ WF_pc(GetFinalTextReturns)
  /\ SF_vars(VadClockAdvances)

\* C24: every timed-capture call comes to its end, whatever frames,
\* recogniser events and manual stops arrive, when the clock keeps
\* advancing and every collaborator call returns.
C24_TimedCaptureTerminates == <>(pc = "done")

\* a call that went through loop iterations without a frame and with
\* frames of the wrong size and was ended by the max duration
C24_Witness ==
  /\ mode = "vad"
  /\ pc = "done"
  /\ end_reason = "MaxDuration"
  /\ outcome = "returned"
  /\ mic.script # <<>>

(***************************************************************************)
(* The silence count and the smoothing window                              *)
(***************************************************************************)

\* the i-th valid frame was processed after voice start with a smoothed
\* average not above continued_threshold
SilentFrame(i) ==
  /\ log.frames[i].active
  /\ ~SmoothedAboveContinued(i)

\* the length of the run of such frames that ends with the i-th valid frame
RECURSIVE SilentRun(_)
SilentRun(i) ==
  IF i = 0 \/ ~SilentFrame(i) THEN 0 ELSE 1 + SilentRun(i - 1)

\* C25: silence_frames_count is the number of consecutive most recent valid
\* frames, processed after voice start, whose smoothed average energy was
\* not above continued_threshold: 0 before and at voice start, reset to 0
\* by an average above continued_threshold (also one not above
\* energy_threshold), and raised by exactly 1 by any other valid frame.
C25_SilenceCount ==
  mode = "vad" => silence_frames_count = SilentRun(Len(log.frames))

\* a frame whose smoothed average lies above continued_threshold and not
\* above energy_threshold has reset a count that was positive
C25_Witness ==
  /\ mode = "vad"
  /\ voice_started
  /\ Len(log.frames) >= 2
  /\ log.frames[Len(log.frames)].active
  /\ SilentRun(Len(log.frames) - 1) > 0
  /\ silence_frames_count = 0
  /\ ~AvgAboveStart(WindowAt(Len(log.frames)))

\* C26: the frame history of a timed session never holds more than
\* frame_history_length = 20 readings; it holds the energies of the most
\* recent min(n, 20) valid frames in arrival order, the oldest evicted
\* first; and the signal the voice start is decided on is the sum of that
\* window divided by its length: voice has started exactly when for some
\* valid frame the sum of its window exceeded energy_threshold times the
\* window's length.
C26_FrameHistoryWindow ==
  mode = "vad" =>
    /\ Len(frame_history) <= frame_history_length
    /\ frame_history = IF log.frames = <<>> THEN <<>>
                       ELSE WindowAt(Len(log.frames))
    /\ voice_started <=>
         \E i \in DOMAIN log.frames :
           Sum(WindowAt(i)) > energy_threshold * Len(WindowAt(i))

\* a session past its 20th valid frame: the window is full and its oldest
\* reading is no longer the first frame's
C26_Witness ==
  /\ mode = "vad"
  /\ Len(log.frames) > frame_history_length + 1
  /\ Len(frame_history) = frame_history_length
  /\ frame_history[1] = log.frames[Len(log.frames) - frame_history_length + 1].energy
  /\ frame_history[1] # log.frames[1].energy
  /\ voice_started

----------------------------------------------------------------------------
(* Timed capture over the settings and audio formats it can be given *)

\* load_vad_settings() / VAD_SETTINGS: the configurations a session can be
\* given.  A configured continued_threshold is not above energy_threshold,
\* and energy_threshold, an RMS energy, is not negative.
LoadedVadConfigs ==
  { c \in [energy_threshold : {0, 10}, continued_threshold : {Absent, 6, 10},
           silence_duration : {Absent, 10}, min_speech_duration : {40},
           speech_buffer_time : {Absent}, max_recording_time : {80}] :
      c.continued_threshold # Absent => c.continued_threshold <= c.energy_threshold }

\* the sample rate and frame length of the audio manager
AudioFormats ==
  { [sample_rate |-> 16000, frame_length |-> fl, listening |-> FALSE] :
      fl \in {8000, 512} }

InitSettings ==
  /\ mode = "vad"
  /\ is_follow_up = TRUE
  /\ speech_enabled = TRUE
  /\ audio_manager \in AudioFormats
  /\ vosk = [connected |-> TRUE, complete_text |-> <<>>, partial_text |-> <<>>,
             response_queue |-> <<>>, wire |-> <<>>, srv_heard |-> FALSE]
  /\ pc = "call"
  /\ now = 0
  /\ vad_config \in LoadedVadConfigs
  /\ overall_start_time = 0 /\ start_time = 0 /\ speech_start_time = 0
  /\ voice_started = FALSE /\ silence_frames_count = 0 /\ frame_history = <<>>
  /\ pending = [kind |-> "none", value |-> None]
  /\ outcome = "running"
  /\ result = None
  /\ mic = [free |-> 0, script |-> <<Frame(12), WrongSizeFrame, Frame(7), Frame(0)>>]
  /\ \E budget \in {<<MaxAnswers, 0>>, <<0, MaxFaults>>} :
       answers_left = budget[1] /\ faults_left = budget[2]
  /\ end_reason = "none"
  /\ log = NoLog

SpecSettings == InitSettings /\ [][NextVad]_vars

RoundNearest(n, d) == (2 * n + d) \div (2 * d)

\* C28: the number of consecutive silent frames that ends a timed session
\* is silence_duration * sample_rate / frame_length rounded to the nearest
\* integer, in every session that has reached its loop (silence_duration
\* is in tenths of a second here).
C28_SilenceFramesRounded ==
  (mode = "vad" /\ pc = "loop") =>
    silence_frames_needed =
      RoundNearest(silence_duration * audio_manager.sample_rate,
                   10 * audio_manager.frame_length)

(***************************************************************************)
(* Audio that arrives during the speech_buffer_time pause                  *)
(***************************************************************************)

\* C29: in a timed session that held for speech_buffer_time, the frames the
\* source had for it during the pause were passed to process_frame before
\* get_final_text was called: when get_final_text has been called, the
\* source holds no frame the session did not read.
C29_TrailingAudioProcessed ==
  (mode = "vad" /\ end_reason \in PausingEnds /\ log.get_final_text = 1) =>
    FramesAvailable = {}

(***************************************************************************)
(* The recogniser's final-segment signal                                   *)
(***************************************************************************)

\* the i-th valid frame could end the session by a final segment: it was
\* processed after voice start; the speech duration is tested on the
\* session's last frame, whose clock reading is kept
FinalCounts(i) == log.frames[i].final /\ log.frames[i].active

\* C30: the final-segment signal is not latched.  A timed session that
\* ended as RecognizerFinal ended on a frame on which process_frame
\* reported a final segment, processed after voice start and at a speech
\* duration of at least min_speech_duration; a final segment reported on an
\* earlier frame (before voice start, on the frame that starts voice, or
\* when the speech was too short) has not ended it.
C30_FinalNotLatched ==
  end_reason = "RecognizerFinal" =>
    /\ mode = "vad"
    /\ log.frames # <<>>
    /\ FinalCounts(Len(log.frames))
    /\ log.frame_time - speech_start_time >= min_speech_duration
    /\ pc \in {"final", "finally", "done"}

\* a session still in its loop after a final segment on the frame that
\* started voice and a later frame, without final segment, at a speech
\* duration that would have let a final segment end it
C30_Witness ==
  /\ mode = "vad"
  /\ pc = "loop"
  /\ end_reason = "none"
  /\ Len(log.frames) >= 2
  /\ \E i \in 1..(Len(log.frames) - 1) : log.frames[i].final /\ ~log.frames[i].active
  /\ log.frames[Len(log.frames)].active
  /\ ~log.frames[Len(log.frames)].final
  /\ log.frame_time - speech_start_time >= min_speech_duration

====
